---- MODULE Spec2Model ----
(***************************************************************************)
(* A model of the overlord proxy's request lifecycle: the Redis node       *)
(* connection (WriteBatch / ReadBatch over the vectored Writer and the     *)
(* marked Reader), the batch completion calls of MsgBatch, the node        *)
(* connection's open/closed state, and the handler's frame cycle.          *)
(***************************************************************************)
EXTENDS Integers, Sequences, FiniteSets, TLC

(***************************************************************************)
(* Bounds of the model.                                                    *)
(***************************************************************************)
\* the largest number of messages in one MsgBatch
MaxBatch == 3
\* the number of slices the encoding of one request lends to the Writer
SlicesPerReq == 6
\* the number of tokens of one backend reply: a header line and its body
ReplyLen == 2
\* the number of backend nodes of the cluster (len(h.cluster.nodeMap))
NumNodes == 2
\* the largest number of requests the client pipelines into one frame
MaxFrame == 3
\* the number of tasks that call Close on one node connection
NumClosers == 3
\* the largest number of Close calls one task makes, one after the other
MaxCloseCalls == 2
\* the requests of one batch on the connection the health task also pings
PingBatch == 2
\* the batches the traffic task sends on that connection
MaxRounds == 2
\* the pings the health task sends on that connection
MaxPings == 2
\* the messages of one frame read on one Memcached node connection
McMsgs == 2
\* the bytes of one reply line, the delimiter included
LineLen == 2
\* the bytes that follow the header line of a reply that carries data
DataLen == 1
\* the capacity of a buffer fresh from the pool
BufCap == 2
\* the calls made on one Writer
MaxWriterOps == 13
\* the largest cap on the message slots tried (maxConcurrent is a variable)
MaxCap == 6
\* the frames handled on one client connection while the slots are watched
MaxSlotFrames == 4
\* the largest number of sub-requests a Redis command is split into
MaxSubs == 3
\* the largest number of arguments of a Redis request that is split
MaxArgs == 5
\* the largest ping_fail_limit tried
MaxFailLimit == 3
\* the pings of the health loop on one backend
MaxHealthPings == 6
\* the bytes the test connection of a pinger holds at most
MaxConnBytes == 4
\* the calls of Ping and Close on one pinger
MaxPingerOps == 4
\* the largest number of messages of a frame whose buffers are followed
LendFrame == 2
\* the number of slices Encode lends for one reply held in a batch buffer
SlicesPerReply == 2
\* the number of frames one handler serves while its buffers are followed
MaxCycles == 2
\* the bytes of the source stream under a slab Reader
SrcLen == 4
\* the largest size a slab Reader is made with
MaxSize == 2
\* the calls on one slab Reader
MaxSlabOps == 3
\* the largest argument of ReadFull and of Release
MaxAsk == 2
\* the errors other than io.EOF the source of a slab Reader returns
MaxSrcErrs == 1
\* the messages added to one MsgBatch in one frame
MaxBatchAdds == 3
\* the frames of one MsgBatch: it is taken from the pool or reset
MaxBatchFrames == 4

(***************************************************************************)
(* Program constants.                                                      *)
(***************************************************************************)
\* Writer.Write flushes by itself when the vector holds this many slices
FlushLimit == 10
\* the values of the closed word of a handler and of a node connection
handlerOpening == 0
handlerClosed == 1
\* the handler's first number of message slots, and the cap of its growth
defaultConcurrent == 2
defaultMsgBatchSize == 2
growFactor == 2
allocInf == -1
maxConcurrent == 1024

Nil == "nil"
ErrBadAssert == "ErrBadAssert"
ErrBufferFull == "ErrBufferFull"
ErrEncode == "ErrEncode"
ErrIO == "ErrIO"
ErrClosed == "ErrClosed"
ErrPingerPong == "ErrPingerPong"
ErrPingerClosed == "ErrPingerClosed"
EOF == "EOF"

VARIABLES
    \* ---- the Redis node connection and the batch it works on ----
    mb,          \* MsgBatch.Msgs(): the batch's messages, in insertion order
    mbBuf,       \* MsgBatch.buf: [data, r], the reply buffer and its read position
    bw,          \* nodeConn.bw, the Writer: [bufs, err]
    brBound,     \* whether nodeConn.br is bound to the batch's buffer
    sockOut,     \* the slices the socket has taken, in order
    sockWrites,  \* the number of scatter-gather writes issued on the socket
    wire,        \* reply tokens the backend has sent and the reader has not fetched
    state,       \* nodeConn.state: "opened" or "closed"
    sockCloses,  \* how many times conn.Close() ran
    pc,          \* where the worker task is
    wi,          \* WriteBatch: index of the next message
    rb,          \* ReadBatch locals: [i, begin, now]
    ret,         \* what the last WriteBatch / ReadBatch returned
    wgDone,      \* how many times the batch counted its latch down
    hist         \* history: [startedClosed, base, reads, decoded, stopAt, written]

nodeVars == <<mb, mbBuf, bw, brBound, sockOut, sockWrites, wire, state,
              sockCloses, pc, wi, rb, ret, wgDone, hist>>

VARIABLES
    \* ---- the handler of one client connection, its batches and workers ----
    hpc,         \* where Handler.handle is
    messages,    \* len(messages): the number of message slots
    msgs,        \* the frame: the messages Decode returned, in client order
    mbatch,      \* per node, the MsgBatch: [list, st, wg]
    wg,          \* the count of every latch (sync.WaitGroup)
    wj,          \* the wait loop's index into mbatch
    ei,          \* the encode loop's index
    cw,          \* the responses encoded into the client writer, not yet flushed
    sent,        \* the responses of the last frame flushed to the client
    herr,        \* Handler.err
    hhist,       \* history: [doneOrder, outcome]
    hres         \* [closed, closes, msgPuts, mbPuts]: Handler.closed, the
                 \* closes of the client socket, the times the current slots
                 \* and the batches went to their pool

handlerVars == <<hpc, messages, msgs, mbatch, wg, wj, ei, cw, sent, herr, hhist,
                 hres>>

VARIABLES
    \* ---- Close of a node connection, called by several tasks ----
    ncKind,      \* "memcache" or "redis": which nodeConn it is
    closed,      \* nodeConn.closed / nodeConn.state: 0 open, 1 closed
    pinger,      \* memcache nodeConn.pinger: "live", "closed" or "nil"
    connCloses,  \* how many times conn.Close() ran on the socket
    cpc,         \* per task, where its Close call is
    ccalls,      \* per task, the Close calls it has begun
    cret,        \* per task, what its last Close call returned
    chist,       \* history: [wasClosed, won]
    pingPc,      \* the health task's Ping call: "idle", "call" or "panic"
    pingCalls,   \* the Ping calls the health task has begun
    pingRet,     \* what its last Ping call returned
    pingRefs     \* history: the values of n.pinger its Ping calls ran on

pingTaskVars == <<pingPc, pingCalls, pingRet, pingRefs>>
closeVars == <<ncKind, closed, pinger, connCloses, cpc, ccalls, cret, chist,
               pingPc, pingCalls, pingRet, pingRefs>>

VARIABLES
    \* ---- one Redis node connection used by a traffic and a health task ----
    holder,      \* who took the connection out of the free list, or "free"
    psock,       \* the frames written to the socket, in order
    panswered,   \* how many of them the backend has answered
    pwire,       \* the replies sent by the backend and not read yet
    tpc,         \* traffic task: "idle", "write", "read" or "give"
    tround,      \* traffic task: the batches begun
    twi,         \* traffic task: requests of the batch written
    tri,         \* traffic task: replies of the batch read
    ppc,         \* health task: "idle", "write", "read" or "give"
    pings,       \* health task: the pings begun
    phist        \* history: [trafficGot, pingGot], what each task read

pingVars == <<holder, psock, panswered, pwire, tpc, tround, twi, tri, ppc,
              pings, phist>>

VARIABLES
    \* ---- one Memcached node connection reading the replies of a frame ----
    bufs,        \* the buffers: id -> [cap, data, r]; w is Len(data)
    pool,        \* the ids of the buffers that were Put into the pool
    mcBr,        \* the buffer the Reader is bound to (0: nil)
    mcWire,      \* the reply bytes the backend sent, not read yet
    mcMsgs,      \* the messages: k -> [kind, buf, st, got]
    mcpc,        \* "next", "until", "full", "stop" or "recycle"
    mcCur,       \* the message Read is working on
    mcLine,      \* the length of the line ReadUntil returned
    mcErr        \* what the last Read returned

mcVars == <<bufs, pool, mcBr, mcWire, mcMsgs, mcpc, mcCur, mcLine, mcErr>>

VARIABLES
    \* ---- one Writer and the calls made on it ----
    wtr,         \* the Writer: [bufs, err, out, n, ret]
    wops,        \* the calls made so far
    wh           \* history: the last call and what went before it

writerVars == <<wtr, wops, wh>>

VARIABLES
    \* ---- the message slots of one handler, under any cap ----
    slots,       \* len(messages)
    slotCap,     \* the value of maxConcurrent
    slotGen,     \* which slice of slots the handler holds: 0, 1, 2, ...
    slotPool,    \* the slices given to PutMsgs
    slotFrames,  \* the frames handled
    slotHist     \* history: [lm, lastCount, gen, pool, peak] before the frame

slotVars == <<slots, slotCap, slotGen, slotPool, slotFrames, slotHist>>

VARIABLES
    \* ---- the merge of the sub-responses of one Redis command ----
    mergeType,   \* RResponse.mergeType: "basic", "join", "count" or "ok"
    subs,        \* the sub-requests: [reply, answered]; reply is what the
                 \* backend will answer, [proto, err, obj]
    arrival,     \* the order in which the sub-requests were answered
    rr,          \* the merged RResponse: [respObj, panic]
    mgpc         \* "wait" until Merge has run, then "merged"

mergeVars == <<mergeType, subs, arrival, rr, mgpc>>

VARIABLES
    \* ---- the split of one Redis request into sub-requests ----
    sreq,        \* the RRequest: [cmd, args], respObj being cmd and args
    ssubs,       \* the requests Batch returned: [cmd, args, batchStep]
    spc          \* "new" until Batch has run, then "split"

splitVars == <<sreq, ssubs, spc>>

VARIABLES
    \* ---- the health loop of one backend ----
    failLimit,   \* ping_fail_limit of the cluster
    autoEject,   \* ping_auto_eject of the cluster
    fails,       \* the backend's count of consecutive ping failures
    inRing,      \* whether the backend is in the ring
    hlog         \* history: the result of every ping so far, TRUE for success

healthVars == <<failLimit, autoEject, fails, inRing, hlog>>

VARIABLES
    \* ---- one mcPinger over a test connection ----
    connBytes,   \* the bytes the connection was created with
    pgUnread,    \* the bytes of the connection not yet read
    pgState,     \* the pinger's state, handlerOpening or handlerClosed
    pgSent,      \* the ping frames written to the connection
    pgHist       \* history: the calls so far and what each returned

pingerVars == <<connBytes, pgUnread, pgState, pgSent, pgHist>>

VARIABLES
    \* ---- one slab Reader over a source of bytes ----
    slab,        \* the Reader: buf, free, acquired, readed
    rd,          \* the bytes of the source not yet fetched
    slCall,      \* the call of ReadBytes or ReadSlice in progress, or idle
    slHist,      \* history: the calls returned so far, with data and error
    rdErrs       \* history: per error, how often the source returned it

slabVars == <<slab, rd, slCall, slHist, rdErrs>>

VARIABLES
    \* ---- the buffers of a frame from Encode to the release of the frame ----
    lpc,         \* where Handler.handle is: "decode", "encode", "flush", ...
    lframe,      \* the frame: per message [node, subs, reqn]
    lei,         \* the encode loop's index
    mbGen,       \* per node, how many times the batch buffer was reset
    msgGen,      \* per message slot, how many times the message was reset
    lw,          \* the client Writer: [bufs, err, out, n, ret]
    lstale,      \* history: slices the socket took after their owner's reset
    lcycles      \* frames begun

lendVars == <<lpc, lframe, lei, mbGen, msgGen, lw, lstale, lcycles>>

VARIABLES
    \* ---- Handler.closeWithError called by several tasks ----
    promOn,      \* prom.On: whether the metrics are switched on
    hclosed,     \* Handler.closed
    hErr,        \* Handler.err
    hdone,       \* [cancel, msgCh, conn, gauge]: how often h.cancel,
                 \* h.msgCh.Close, h.conn.Close and prom.ConnDecr ran
    kpc,         \* per task, where its closeWithError call is
    kerr,        \* per task, the error its call was given
    kcalls,      \* per task, the closeWithError calls it has begun
    khist        \* history: [first, wasClosed]: the error of the call that
                 \* won the swap (<<>> before it), Closed() was seen true

hcloseVars == <<promOn, hclosed, hErr, hdone, kpc, kerr, kcalls, khist>>

VARIABLES
    \* ---- one MsgBatch between the pool and its user ----
    bt,          \* the MsgBatch: [msgs, count]; a nil message is 0
    btpc,        \* "pool" or "held"
    btAdded,     \* history: the messages added since Get or Reset, in order
    btOld,       \* history: the messages added before that
    btNext,      \* the next message to add
    btFrames,    \* the frames begun
    btFrom       \* history: "new" or "recycled", where Get took it from

batchVars == <<bt, btpc, btAdded, btOld, btNext, btFrames, btFrom>>

vars == <<nodeVars, handlerVars, closeVars, pingVars, mcVars, writerVars, slotVars, mergeVars, splitVars, healthVars, pingerVars, slabVars, lendVars, hcloseVars, batchVars>>

notNodeVars == <<handlerVars, closeVars, pingVars, mcVars, writerVars, slotVars, mergeVars, splitVars, healthVars, pingerVars, slabVars, lendVars, hcloseVars, batchVars>>
notHandlerVars == <<nodeVars, closeVars, pingVars, mcVars, writerVars, slotVars, mergeVars, splitVars, healthVars, pingerVars, slabVars, lendVars, hcloseVars, batchVars>>
notCloseVars == <<nodeVars, handlerVars, pingVars, mcVars, writerVars, slotVars, mergeVars, splitVars, healthVars, pingerVars, slabVars, lendVars, hcloseVars, batchVars>>
notPingVars == <<nodeVars, handlerVars, closeVars, mcVars, writerVars, slotVars, mergeVars, splitVars, healthVars, pingerVars, slabVars, lendVars, hcloseVars, batchVars>>
notMcVars == <<nodeVars, handlerVars, closeVars, pingVars, writerVars, slotVars, mergeVars, splitVars, healthVars, pingerVars, slabVars, lendVars, hcloseVars, batchVars>>
notWriterVars == <<nodeVars, handlerVars, closeVars, pingVars, mcVars, slotVars, mergeVars, splitVars, healthVars, pingerVars, slabVars, lendVars, hcloseVars, batchVars>>
notSlotVars == <<nodeVars, handlerVars, closeVars, pingVars, mcVars, writerVars, mergeVars, splitVars, healthVars, pingerVars, slabVars, lendVars, hcloseVars, batchVars>>
notMergeVars == <<nodeVars, handlerVars, closeVars, pingVars, mcVars, writerVars, slotVars, splitVars, healthVars, pingerVars, slabVars, lendVars, hcloseVars, batchVars>>
notSplitVars == <<nodeVars, handlerVars, closeVars, pingVars, mcVars, writerVars, slotVars, mergeVars, healthVars, pingerVars, slabVars, lendVars, hcloseVars, batchVars>>
notHealthVars == <<nodeVars, handlerVars, closeVars, pingVars, mcVars, writerVars, slotVars, mergeVars, splitVars, pingerVars, slabVars, lendVars, hcloseVars, batchVars>>
notPingerVars == <<nodeVars, handlerVars, closeVars, pingVars, mcVars, writerVars, slotVars, mergeVars, splitVars, healthVars, slabVars, lendVars, hcloseVars, batchVars>>
notSlabVars == <<nodeVars, handlerVars, closeVars, pingVars, mcVars, writerVars, slotVars, mergeVars, splitVars, healthVars, pingerVars, lendVars, hcloseVars, batchVars>>
notLendVars == <<nodeVars, handlerVars, closeVars, pingVars, mcVars, writerVars, slotVars, mergeVars, splitVars, healthVars, pingerVars, slabVars, hcloseVars, batchVars>>
notHcloseVars == <<nodeVars, handlerVars, closeVars, pingVars, mcVars, writerVars, slotVars, mergeVars, splitVars, healthVars, pingerVars, slabVars, lendVars, batchVars>>
notBatchVars == <<nodeVars, handlerVars, closeVars, pingVars, mcVars, writerVars, slotVars, mergeVars, splitVars, healthVars, pingerVars, slabVars, lendVars, hcloseVars>>

(***************************************************************************)
(* Messages.  kind is what the type assertion and the command table say    *)
(* of the message's request:                                               *)
(*   "sup"      a supported command whose request encodes                  *)
(*   "encfail"  a supported command whose request fails to encode          *)
(*   "unsup"    an unsupported command                                     *)
(*   "ctl"      a control command                                          *)
(*   "bad"      the request is not a Redis *Request                        *)
(***************************************************************************)
Kinds == {"sup", "encfail", "unsup", "ctl", "bad"}

NewMessage(k) ==
    [kind |-> k, err |-> Nil, sets |-> 0, written |-> FALSE,
     read |-> FALSE, reply |-> <<>>]

\* every batch of 1..MaxBatch messages
Batches ==
    UNION {[1..n -> {NewMessage(k) : k \in Kinds}] : n \in 1..MaxBatch}

\* Message.DoneWithError: store the error in the message's error slot
DoneWithError(m, e) == [m EXCEPT !.err = e, !.sets = @ + 1]

\* Message.MarkWrite / Message.MarkRead
MarkWrite(m) == [m EXCEPT !.written = TRUE]
MarkRead(m) == [m EXCEPT !.read = TRUE]

\* req.isSupport() / req.isCtl()
isSupport(m) == m.kind # "unsup"
isCtl(m) == m.kind = "ctl"

SkippedOnlyUnsupported(m) == ~isSupport(m)

\* the test of WriteBatch and ReadBatch: !req.isSupport() || req.isCtl()
Skipped(m) == ~isSupport(m) \/ isCtl(m)

(***************************************************************************)
(* The vectored Writer over the socket.  A writer value is                 *)
(* [bufs, err, out, n, ret]: the vector, the sticky error, the slices the  *)
(* socket took, the number of socket writes, and the last call's result.   *)
(* ok says whether a socket write issued by the call succeeds.             *)
(***************************************************************************)
FlushKeepsVector(w, ok) ==
    IF w.err # Nil THEN [w EXCEPT !.ret = w.err]
    ELSE IF Len(w.bufs) = 0 THEN [w EXCEPT !.ret = Nil]
    ELSE IF ok THEN [w EXCEPT !.out = @ \o w.bufs, !.n = @ + 1, !.ret = Nil]
    ELSE [w EXCEPT !.n = @ + 1, !.err = ErrIO, !.ret = ErrIO]

\* Writer.Flush
Flush(w, ok) ==
    IF w.err # Nil THEN [w EXCEPT !.ret = w.err]
    ELSE IF Len(w.bufs) = 0 THEN [w EXCEPT !.ret = Nil]
    ELSE IF ok THEN [w EXCEPT !.out = @ \o w.bufs, !.n = @ + 1,
                              !.bufs = <<>>, !.ret = Nil]
    ELSE [w EXCEPT !.n = @ + 1, !.err = ErrIO, !.bufs = <<>>, !.ret = ErrIO]

WriteUnchecked(w, p, ok) ==
    IF p = Nil THEN [w EXCEPT !.ret = Nil]
    ELSE LET f == IF Len(w.bufs) = FlushLimit THEN Flush(w, ok) ELSE w
         IN  [f EXCEPT !.bufs = Append(@, p), !.ret = Nil]

\* Writer.Write: the result of the flush it triggers is dropped
Write(w, p, ok) ==
    IF w.err # Nil THEN [w EXCEPT !.ret = w.err]
    ELSE IF p = Nil THEN [w EXCEPT !.ret = Nil]
    ELSE LET f == IF Len(w.bufs) = FlushLimit THEN Flush(w, ok) ELSE w
         IN  [f EXCEPT !.bufs = Append(@, p), !.ret = Nil]

\* the slices of message i's request
ReqSlices(i) == [k \in 1..SlicesPerReq |-> <<i, k>>]

RECURSIVE WriteAll(_, _, _)
WriteAll(w, ps, ok) ==
    IF ps = <<>> THEN [w EXCEPT !.ret = Nil]
    ELSE LET w2 == Write(w, Head(ps), ok)
         IN  IF w2.ret # Nil THEN w2 ELSE WriteAll(w2, Tail(ps), ok)

\* resp.encode: write the request's slices, stop at the first error
encode(w, m, i, ok) ==
    IF m.kind = "encfail" THEN [w EXCEPT !.ret = ErrEncode]
    ELSE WriteAll(w, ReqSlices(i), ok)

\* a socket write or read can succeed only while the socket is not closed
SockOk == IF sockCloses > 0 THEN {FALSE} ELSE BOOLEAN

WriterOf == [bufs |-> bw.bufs, err |-> bw.err, out |-> sockOut,
             n |-> sockWrites, ret |-> Nil]

\* the replies the backend sends for the requests it received, in order
RECURSIVE RepliesFor(_)
RepliesFor(out) ==
    IF out = <<>> THEN <<>>
    ELSE IF Head(out)[2] = 1
         THEN [k \in 1..ReplyLen |-> <<Head(out)[1], k>>] \o RepliesFor(Tail(out))
         ELSE RepliesFor(Tail(out))

(***************************************************************************)
(* nodeConn.WriteBatch, one loop iteration per step.                       *)
(***************************************************************************)
WriteBatchBegin ==
    /\ UNCHANGED notNodeVars
    /\ pc = "idle"
    /\ pc' = "write"
    /\ wi' = 1
    /\ hist' = [hist EXCEPT !.startedClosed = (state = "closed"),
                            !.base = sockWrites + hist.reads]
    /\ UNCHANGED <<mb, mbBuf, bw, brBound, sockOut, sockWrites, wire, state,
                   sockCloses, rb, ret, wgDone>>

WriteBatchStep ==
    /\ UNCHANGED notNodeVars
    /\ pc = "write"
    /\ wi <= Len(mb)
    /\ \E ok \in SockOk :
         LET m == mb[wi]
             w == encode(WriterOf, m, wi, ok)
         IN  IF m.kind = "bad"
             THEN /\ mb' = [mb EXCEPT ![wi] = DoneWithError(m, ErrBadAssert)]
                  /\ ret' = ErrBadAssert
                  /\ pc' = "wret"
                  /\ hist' = [hist EXCEPT !.stopAt = wi]
                  /\ UNCHANGED <<bw, sockOut, sockWrites, wi>>
             ELSE IF Skipped(m)
             THEN /\ wi' = wi + 1
                  /\ UNCHANGED <<mb, bw, sockOut, sockWrites, ret, pc, hist>>
             ELSE /\ bw' = [bufs |-> w.bufs, err |-> w.err]
                  /\ sockOut' = w.out
                  /\ sockWrites' = w.n
                  /\ IF w.ret # Nil
                     THEN /\ mb' = [mb EXCEPT ![wi] = DoneWithError(m, w.ret)]
                          /\ ret' = w.ret
                          /\ pc' = "wret"
                          /\ hist' = [hist EXCEPT !.stopAt = wi]
                          /\ UNCHANGED wi
                     ELSE /\ mb' = [mb EXCEPT ![wi] = MarkWrite(m)]
                          /\ wi' = wi + 1
                          /\ hist' = [hist EXCEPT !.written = Append(@, wi)]
                          /\ UNCHANGED <<ret, pc>>
    /\ UNCHANGED <<mbBuf, brBound, wire, state, sockCloses, rb, wgDone>>

WriteBatchFlush ==
    /\ UNCHANGED notNodeVars
    /\ pc = "write"
    /\ wi > Len(mb)
    /\ \E ok \in SockOk :
         LET w == Flush(WriterOf, ok)
         IN  /\ bw' = [bufs |-> w.bufs, err |-> w.err]
             /\ sockOut' = w.out
             /\ sockWrites' = w.n
             /\ ret' = w.ret
             /\ wire' = IF w.ret = Nil THEN RepliesFor(w.out) ELSE wire
    /\ pc' = "wret"
    /\ UNCHANGED <<mb, mbBuf, brBound, state, sockCloses, wi, rb, wgDone, hist>>

(***************************************************************************)
(* The marked Reader over the batch's reply buffer.                        *)
(***************************************************************************)
\* reply.decode at the buffer's read position: a complete reply is taken;
\* of an incomplete one the header line, when present, is consumed
decode(b) ==
    LET avail == Len(b.data) - b.r
    IN  IF avail >= ReplyLen
        THEN [err |-> Nil, r |-> b.r + ReplyLen,
              reply |-> SubSeq(b.data, b.r + 1, b.r + ReplyLen)]
        ELSE [err |-> ErrBufferFull, r |-> IF avail >= 1 THEN b.r + 1 ELSE b.r,
              reply |-> <<>>]

MarkStale(now, r) == now

\* the mark ReadBatch saves after a reply is decoded: now = nc.br.Mark()
MarkAfter(now, r) == r

RetryAtBegin(begin, now) == begin

\* the mark ReadBatch goes back to before it decodes again: nc.br.AdvanceTo(now)
RetryMark(begin, now) == now

(***************************************************************************)
(* nodeConn.ReadBatch, one loop iteration per step.                        *)
(***************************************************************************)
ReadBatchBegin ==
    /\ UNCHANGED notNodeVars
    /\ pc = "wret"
    /\ ret = Nil
    /\ pc' = "read"
    /\ brBound' = TRUE
    /\ mbBuf' = [data |-> <<>>, r |-> 0]
    /\ rb' = [i |-> 0, begin |-> 0, now |-> 0]
    /\ hist' = [hist EXCEPT !.startedClosed = (state = "closed"),
                            !.base = sockWrites + hist.reads]
    /\ UNCHANGED <<mb, bw, sockOut, sockWrites, wire, state, sockCloses, wi, ret,
                   wgDone>>

SkipStays(i) == i

\* the index after a message that is not forwarded: i++ before continue
SkipTo(i) == i + 1

ReadBatchStep ==
    /\ UNCHANGED notNodeVars
    /\ pc = "read"
    /\ rb.i < Len(mb)
    /\ LET m == mb[rb.i + 1]
           d == decode(mbBuf)
       IN  IF m.kind = "bad"
           THEN /\ ret' = ErrBadAssert
                /\ pc' = "rret"
                /\ brBound' = FALSE
                /\ UNCHANGED <<mb, mbBuf, rb, wire, hist>>
           ELSE IF Skipped(m)
           THEN /\ rb' = [rb EXCEPT !.i = SkipTo(@)]
                /\ UNCHANGED <<mb, mbBuf, brBound, wire, ret, pc, hist>>
           ELSE IF d.err = ErrBufferFull
           THEN \E n \in 0..(IF sockCloses > 0 THEN 0 ELSE Len(wire)) :
                  IF n = 0
                  THEN /\ ret' = ErrIO
                       /\ pc' = "rret"
                       /\ brBound' = FALSE
                       /\ mbBuf' = [mbBuf EXCEPT !.r = rb.begin]
                       /\ hist' = [hist EXCEPT !.reads = @ + 1]
                       /\ UNCHANGED <<mb, rb, wire>>
                  ELSE /\ mbBuf' = [data |-> mbBuf.data \o SubSeq(wire, 1, n),
                                    r |-> RetryMark(rb.begin, rb.now)]
                       /\ wire' = SubSeq(wire, n + 1, Len(wire))
                       /\ hist' = [hist EXCEPT !.reads = @ + 1]
                       /\ UNCHANGED <<mb, rb, brBound, ret, pc>>
           ELSE /\ mb' = [mb EXCEPT ![rb.i + 1] =
                              MarkRead([m EXCEPT !.reply = d.reply])]
                /\ mbBuf' = [mbBuf EXCEPT !.r = d.r]
                /\ rb' = [rb EXCEPT !.now = MarkAfter(rb.now, d.r), !.i = @ + 1]
                /\ hist' = [hist EXCEPT !.decoded = @ + 1]
                /\ UNCHANGED <<brBound, wire, ret, pc>>
    /\ UNCHANGED <<bw, sockOut, sockWrites, state, sockCloses, wi, wgDone>>

ReadBatchEnd ==
    /\ UNCHANGED notNodeVars
    /\ pc = "read"
    /\ rb.i >= Len(mb)
    /\ ret' = Nil
    /\ pc' = "rret"
    /\ brBound' = FALSE
    /\ UNCHANGED <<mb, mbBuf, bw, sockOut, sockWrites, wire, state, sockCloses,
                   wi, rb, wgDone, hist>>

(***************************************************************************)
(* The worker's completion of the batch.                                   *)
(***************************************************************************)
\* MsgBatch.BatchDone
BatchDone ==
    /\ UNCHANGED notNodeVars
    /\ pc = "rret"
    /\ ret = Nil
    /\ wgDone' = wgDone + 1
    /\ pc' = "done"
    /\ UNCHANGED <<mb, mbBuf, bw, brBound, sockOut, sockWrites, wire, state,
                   sockCloses, wi, rb, ret, hist>>

\* MsgBatch.BatchDoneWithError, called with the error WriteBatch or
\* ReadBatch returned
BatchDoneWithError ==
    /\ UNCHANGED notNodeVars
    /\ pc \in {"wret", "rret"}
    /\ ret # Nil
    /\ mb' = [i \in 1..Len(mb) |-> DoneWithError(mb[i], ret)]
    /\ wgDone' = wgDone + 1
    /\ pc' = "done"
    /\ UNCHANGED <<mbBuf, bw, brBound, sockOut, sockWrites, wire, state,
                   sockCloses, wi, rb, ret, hist>>

(***************************************************************************)
(* nodeConn.Close of the Redis node connection, between two operations.    *)
(***************************************************************************)
NodeClose ==
    /\ UNCHANGED notNodeVars
    /\ pc \in {"idle", "wret"}
    /\ IF state = "opened"
       THEN state' = "closed" /\ sockCloses' = sockCloses + 1
       ELSE UNCHANGED <<state, sockCloses>>
    /\ UNCHANGED <<mb, mbBuf, bw, brBound, sockOut, sockWrites, wire, pc, wi, rb,
                   ret, wgDone, hist>>

(***************************************************************************)
(* The initial state: a node connection just built, a batch just filled.   *)
(***************************************************************************)
InitNodeVars ==
    /\ mb \in Batches
    /\ mbBuf = [data |-> <<>>, r |-> 0]
    /\ bw = [bufs |-> <<>>, err |-> Nil]
    /\ brBound = FALSE
    /\ sockOut = <<>>
    /\ sockWrites = 0
    /\ wire = <<>>
    /\ state = "opened"
    /\ sockCloses = 0
    /\ pc = "idle"
    /\ wi = 0
    /\ rb = [i |-> 0, begin |-> 0, now |-> 0]
    /\ ret = Nil
    /\ wgDone = 0
    /\ hist = [startedClosed |-> FALSE, base |-> 0, reads |-> 0, decoded |-> 0,
               stopAt |-> 0,
               written |-> <<>>]

\* the node connection at rest, for the specifications that do not run it
ParkNode ==
    /\ mb = <<>> /\ mbBuf = <<>> /\ bw = <<>> /\ brBound = FALSE
    /\ sockOut = <<>> /\ sockWrites = 0 /\ wire = <<>> /\ state = "opened"
    /\ sockCloses = 0 /\ pc = "parked" /\ wi = 0 /\ rb = <<>> /\ ret = Nil
    /\ wgDone = 0 /\ hist = <<>>

NextNode ==
    \/ WriteBatchBegin
    \/ WriteBatchStep
    \/ WriteBatchFlush
    \/ ReadBatchBegin
    \/ ReadBatchStep
    \/ ReadBatchEnd
    \/ BatchDone
    \/ BatchDoneWithError
    \/ NodeClose

(***************************************************************************)
(* The handler of one client connection: Handler.handle, the dispatch of   *)
(* a frame into per-node batches, and the workers that complete them.      *)
(***************************************************************************)
Nodes == 1..NumNodes

Min(a, b) == IF a < b THEN a ELSE b

LatchPerBatch(n) == n

\* GetMsgBatchs: the latch of the n-th batch; one WaitGroup is made and
\* given to every batch
LatchOf(n) == 1

\* GetMsgBatchs(len(h.cluster.nodeMap))
GetMsgBatchs == [n \in Nodes |-> [list |-> <<>>, st |-> "idle", wg |-> LatchOf(n)]]

\* the indices of the frame's messages routed to node n, in frame order
RoutedTo(frame, n) ==
    SelectSeq([i \in 1..Len(frame) |-> i], LAMBDA i : frame[i].node = n)

RegisteredAll(frame, mbs, l) ==
    Cardinality({n \in Nodes : mbs[n].wg = l})

\* how many non-empty batches of the frame hang on latch l
Registered(frame, mbs, l) ==
    Cardinality({n \in Nodes : mbs[n].wg = l /\ RoutedTo(frame, n) # <<>>})

\* Handler.resetMaxConcurrent
doublesBelowCap(lm, lastCount, max) == lm < max

\* the branch of Handler.resetMaxConcurrent: lm < maxConcurrent && lm == lastCount
doubles(lm, lastCount, max) == lm < max /\ lm = lastCount

\* Handler.resetMaxConcurrent under a cap of max: len of the slice returned
resetSlots(lm, lastCount, max) ==
    IF doubles(lm, lastCount, max) THEN lm * 2 ELSE lm

resetMaxConcurrent(lm, lastCount) == resetSlots(lm, lastCount, maxConcurrent)

RECURSIVE Flatten(_)
Flatten(ss) == IF ss = <<>> THEN <<>> ELSE Head(ss) \o Flatten(Tail(ss))

EncodeOrderByCompletion ==
    Flatten([k \in 1..Len(hhist.doneOrder) |-> mbatch[hhist.doneOrder[k]].list])

\* the order of the encode loop: for _, msg := range msgs
EncodeOrder == [i \in 1..Len(msgs) |-> i]

\* ProxyConn.Encode: the response of the message, or the reply of its error
Response(i) ==
    [req |-> i,
     body |-> IF msgs[i].err # Nil THEN <<"error", msgs[i].err>> ELSE msgs[i].resp]

AfterDeferLoops == "decode"

\* where handle is after deferHandle: every call is followed by return
AfterDefer == "closed"

\* Handler.deferHandle: PutMsgs, PutMsgBatchs, closeWithError
deferHandle(err) ==
    /\ hpc' = AfterDefer
    /\ mbatch' = [n \in Nodes |-> [list |-> <<>>, st |-> "idle", wg |-> 0]]
    /\ msgs' = <<>>
    /\ IF hres.closed = handlerOpening
       THEN /\ herr' = err
            /\ hres' = [closed |-> handlerClosed, closes |-> hres.closes + 1,
                        msgPuts |-> hres.msgPuts + 1, mbPuts |-> hres.mbPuts + 1]
       ELSE /\ herr' = herr
            /\ hres' = [hres EXCEPT !.msgPuts = @ + 1, !.mbPuts = @ + 1]

\* step 1: h.pc.Decode(messages)
Decode ==
    /\ UNCHANGED notHandlerVars
    /\ hpc = "decode"
    /\ \E n \in 0..Min(messages, MaxFrame) :
         IF n = 0
         THEN /\ deferHandle("ErrDecode")
              /\ UNCHANGED <<messages, wg, wj, ei, cw, sent, hhist>>
         ELSE \E route \in [1..n -> Nodes] :
                /\ msgs' = [i \in 1..n |-> [node |-> route[i], resp |-> <<>>,
                                             err |-> Nil]]
                /\ hpc' = "dispatch"
                /\ UNCHANGED <<messages, mbatch, wg, wj, ei, cw, sent, herr, hhist, hres>>

\* step 2: h.cluster.DispatchBatch(mbatch, msgs)
DispatchBatch ==
    /\ UNCHANGED notHandlerVars
    /\ UNCHANGED hres
    /\ hpc = "dispatch"
    /\ mbatch' = [n \in Nodes |->
                    [mbatch[n] EXCEPT
                       !.list = RoutedTo(msgs, n),
                       !.st = IF RoutedTo(msgs, n) # <<>> THEN "queued" ELSE "idle"]]
    /\ wg' = [l \in DOMAIN wg |-> wg[l] + Registered(msgs, mbatch, l)]
    /\ hpc' = "wait"
    /\ wj' = 1
    /\ hhist' = [doneOrder |-> <<>>, outcome |-> [n \in Nodes |-> "none"]]
    /\ UNCHANGED <<messages, msgs, ei, cw, sent, herr>>

\* the node's worker: WriteBatch and ReadBatch on the node connection
WorkerIO(n) ==
    /\ UNCHANGED notHandlerVars
    /\ UNCHANGED hres
    /\ mbatch[n].st = "queued"
    /\ \E ok \in BOOLEAN :
         /\ mbatch' = [mbatch EXCEPT ![n].st = IF ok THEN "ok" ELSE "failed"]
         /\ msgs' = [i \in 1..Len(msgs) |->
                       IF ok /\ msgs[i].node = n
                       THEN [msgs[i] EXCEPT !.resp = <<"reply", i>>]
                       ELSE msgs[i]]
         /\ hhist' = [hhist EXCEPT !.outcome[n] = IF ok THEN "ok" ELSE "failed"]
    /\ UNCHANGED <<hpc, messages, wg, wj, ei, cw, sent, herr>>

MsgsOfFrame(b) == 1..Len(msgs)

\* MsgBatch.Msgs: the messages of the batch, m.msgs[:m.count]
Msgs(b) == {b.list[k] : k \in 1..Len(b.list)}

\* the node's worker: BatchDone, or BatchDoneWithError after a failure
WorkerDone(n) ==
    /\ UNCHANGED notHandlerVars
    /\ UNCHANGED hres
    /\ mbatch[n].st \in {"ok", "failed"}
    /\ msgs' = [i \in 1..Len(msgs) |->
                  IF mbatch[n].st = "failed" /\ i \in Msgs(mbatch[n])
                  THEN [msgs[i] EXCEPT !.err = ErrIO]
                  ELSE msgs[i]]
    /\ wg' = [wg EXCEPT ![mbatch[n].wg] = @ - 1]
    /\ mbatch' = [mbatch EXCEPT ![n].st = "done"]
    /\ hhist' = [hhist EXCEPT !.doneOrder = Append(@, n)]
    /\ UNCHANGED <<hpc, messages, wj, ei, cw, sent, herr>>

\* step 3: mb.Wait() on the next batch of mbatch
Wait ==
    /\ UNCHANGED notHandlerVars
    /\ UNCHANGED hres
    /\ hpc = "wait"
    /\ wg[mbatch[wj].wg] = 0
    /\ IF wj < NumNodes
       THEN wj' = wj + 1 /\ UNCHANGED <<hpc, ei>>
       ELSE hpc' = "encode" /\ ei' = 1 /\ UNCHANGED wj
    /\ UNCHANGED <<messages, msgs, mbatch, wg, cw, sent, herr, hhist>>

\* step 4: h.pc.Encode(msg) for the next message of the frame
Encode ==
    /\ UNCHANGED notHandlerVars
    /\ hpc = "encode"
    /\ \E ok \in BOOLEAN :
         IF ok
         THEN /\ cw' = Append(cw, Response(EncodeOrder[ei]))
              /\ IF ei < Len(msgs)
                 THEN ei' = ei + 1 /\ UNCHANGED hpc
                 ELSE hpc' = "flush" /\ UNCHANGED ei
              /\ UNCHANGED <<msgs, mbatch, herr, sent, hres>>
         ELSE /\ deferHandle("ErrEncode")
              /\ sent' = cw
              /\ cw' = <<>>
              /\ UNCHANGED ei
    /\ UNCHANGED <<messages, wg, wj, hhist>>

\* h.pc.Flush() after the encode loop
ClientFlush ==
    /\ UNCHANGED notHandlerVars
    /\ hpc = "flush"
    /\ \E ok \in BOOLEAN :
         IF ok
         THEN /\ sent' = cw
              /\ cw' = <<>>
              /\ hpc' = "release"
              /\ UNCHANGED <<msgs, mbatch, herr, hres>>
         ELSE /\ deferHandle("ErrFlush")
              /\ cw' = <<>>
              /\ UNCHANGED sent
    /\ UNCHANGED <<messages, wg, wj, ei, hhist>>

\* steps 4 and 5 of the loop's tail: msg.Reset, mb.Reset, resetMaxConcurrent
Release ==
    /\ UNCHANGED notHandlerVars
    /\ UNCHANGED hres
    /\ hpc = "release"
    /\ messages' = resetMaxConcurrent(messages, Len(msgs))
    /\ msgs' = <<>>
    /\ mbatch' = [n \in Nodes |-> [mbatch[n] EXCEPT !.list = <<>>, !.st = "idle"]]
    /\ hpc' = "decode"
    /\ hhist' = [doneOrder |-> <<>>, outcome |-> [n \in Nodes |-> "none"]]
    /\ UNCHANGED <<wg, wj, ei, cw, sent, herr>>

InitHandlerVars ==
    /\ hpc = "decode"
    /\ messages = defaultConcurrent
    /\ msgs = <<>>
    /\ mbatch = GetMsgBatchs
    /\ wg = [l \in Nodes |-> 0]
    /\ wj = 1
    /\ ei = 1
    /\ cw = <<>>
    /\ sent = <<>>
    /\ herr = Nil
    /\ hhist = [doneOrder |-> <<>>, outcome |-> [n \in Nodes |-> "none"]]
    /\ hres = [closed |-> handlerOpening, closes |-> 0, msgPuts |-> 0, mbPuts |-> 0]

\* the handler at rest, for the specifications that do not run it
ParkHandler ==
    /\ hpc = "parked" /\ messages = 0 /\ msgs = <<>> /\ mbatch = <<>>
    /\ wg = <<>> /\ wj = 0 /\ ei = 0 /\ cw = <<>> /\ sent = <<>> /\ herr = Nil
    /\ hhist = <<>> /\ hres = <<>>

NextHandler ==
    \/ Decode
    \/ DispatchBatch
    \/ \E n \in Nodes : WorkerIO(n)
    \/ \E n \in Nodes : WorkerDone(n)
    \/ Wait
    \/ Encode
    \/ ClientFlush
    \/ Release

(***************************************************************************)
(* nodeConn.Close, of the Memcached and of the Redis node connection,      *)
(* called by several tasks; every statement of Close is one step.          *)
(***************************************************************************)
Closers == 1..NumClosers

\* a nil pointer dereference in one task ends the whole process
Running == pingPc # "panic"

SwapAlways(cur) == TRUE

\* atomic.CompareAndSwapInt32(&n.closed, handlerOpening, handlerClosed):
\* whether the swap takes place
CompareAndSwap(cur) == cur = handlerOpening

\* a task calls Close: the compare-and-swap; the loser returns nil
CloseCas(t) ==
    /\ UNCHANGED notCloseVars
    /\ Running
    /\ UNCHANGED pingTaskVars
    /\ cpc[t] = "idle"
    /\ ccalls[t] < MaxCloseCalls
    /\ ccalls' = [ccalls EXCEPT ![t] = @ + 1]
    /\ IF CompareAndSwap(closed)
       THEN /\ closed' = handlerClosed
            /\ cpc' = [cpc EXCEPT ![t] =
                         IF ncKind = "memcache" THEN "pingerClose" ELSE "connClose"]
            /\ chist' = [chist EXCEPT !.wasClosed = TRUE, !.won = @ \cup {t}]
            /\ UNCHANGED cret
       ELSE /\ cpc' = [cpc EXCEPT ![t] = "idle"]
            /\ cret' = [cret EXCEPT ![t] = Nil]
            /\ chist' = [chist EXCEPT !.won = @ \ {t}]
            /\ UNCHANGED closed
    /\ UNCHANGED <<ncKind, pinger, connCloses>>

\* memcache: _ = n.pinger.Close()
ClosePinger(t) ==
    /\ UNCHANGED notCloseVars
    /\ Running
    /\ UNCHANGED pingTaskVars
    /\ cpc[t] = "pingerClose"
    /\ pinger' = "closed"
    /\ cpc' = [cpc EXCEPT ![t] = "pingerNil"]
    /\ UNCHANGED <<ncKind, closed, connCloses, ccalls, cret, chist>>

\* memcache: n.pinger = nil
ClearPinger(t) ==
    /\ UNCHANGED notCloseVars
    /\ Running
    /\ UNCHANGED pingTaskVars
    /\ cpc[t] = "pingerNil"
    /\ pinger' = "nil"
    /\ cpc' = [cpc EXCEPT ![t] = "connClose"]
    /\ UNCHANGED <<ncKind, closed, connCloses, ccalls, cret, chist>>

\* err := n.conn.Close(); return err
CloseConn(t) ==
    /\ UNCHANGED notCloseVars
    /\ Running
    /\ UNCHANGED pingTaskVars
    /\ cpc[t] = "connClose"
    /\ connCloses' = connCloses + 1
    /\ \E e \in {Nil, ErrIO} : cret' = [cret EXCEPT ![t] = e]
    /\ cpc' = [cpc EXCEPT ![t] = "idle"]
    /\ UNCHANGED <<ncKind, closed, pinger, ccalls, chist>>

\* nodeConn.Closed
Closed == closed = handlerClosed

\* memcache nodeConn.Ping, the check: if n.Closed() { err = io.EOF; return }
PingClosedCheck ==
    /\ UNCHANGED notCloseVars
    /\ ncKind = "memcache"
    /\ pingPc = "idle"
    /\ pingCalls < MaxPings
    /\ pingCalls' = pingCalls + 1
    /\ IF Closed
       THEN pingRet' = EOF /\ UNCHANGED pingPc
       ELSE pingPc' = "call" /\ UNCHANGED pingRet
    /\ UNCHANGED <<ncKind, closed, pinger, connCloses, cpc, ccalls, cret, chist,
                   pingRefs>>

\* the values a read of the field n.pinger can give.  Close writes the
\* field and Ping reads it with no synchronisation between them: after
\* n.pinger = nil the read gives nil or still the pointer stored before
PingerRead == IF pinger = "nil" THEN {"nil", "closed"} ELSE {pinger}

\* mcPinger.Ping on the pinger the field gave: a live pinger pings and
\* gives the outcome of the exchange, a closed one gives its error
PingOutcomes(ref) ==
    IF ref = "live" THEN {Nil, ErrPingerPong} ELSE {ErrPingerClosed}

\* memcache nodeConn.Ping, the call: err = n.pinger.Ping().  On a nil
\* pointer the method reads a field of its receiver and the task panics
PingCall ==
    /\ UNCHANGED notCloseVars
    /\ pingPc = "call"
    /\ \E ref \in PingerRead :
        /\ pingRefs' = pingRefs \cup {ref}
        /\ IF ref = "nil"
           THEN pingPc' = "panic" /\ UNCHANGED pingRet
           ELSE /\ pingPc' = "idle"
                /\ \E e \in PingOutcomes(ref) : pingRet' = e
    /\ UNCHANGED <<ncKind, closed, pinger, connCloses, cpc, ccalls, cret, chist,
                   pingCalls>>

InitCloseVars ==
    /\ ncKind \in {"memcache", "redis"}
    /\ closed = handlerOpening
    /\ pinger = "live"
    /\ connCloses = 0
    /\ cpc = [t \in Closers |-> "idle"]
    /\ ccalls = [t \in Closers |-> 0]
    /\ cret = [t \in Closers |-> Nil]
    /\ chist = [wasClosed |-> FALSE, won |-> {}]
    /\ pingPc = "idle"
    /\ pingCalls = 0
    /\ pingRet = Nil
    /\ pingRefs = {}

\* the closing tasks at rest, for the specifications that do not run them
ParkClose ==
    /\ ncKind = "redis" /\ closed = handlerOpening /\ pinger = "live"
    /\ connCloses = 0 /\ cpc = <<>> /\ ccalls = <<>> /\ cret = <<>>
    /\ chist = <<>>
    /\ pingPc = "parked" /\ pingCalls = 0 /\ pingRet = Nil /\ pingRefs = {}

NextClose ==
    \/ \E t \in Closers : CloseCas(t)
    \/ \E t \in Closers : ClosePinger(t)
    \/ \E t \in Closers : ClearPinger(t)
    \/ \E t \in Closers : CloseConn(t)
    \/ PingClosedCheck
    \/ PingCall

(***************************************************************************)
(* Ping and the batch operations on one Redis node connection: the pinger  *)
(* is built over the same socket as the Reader and the Writer, and neither *)
(* Ping nor WriteBatch/ReadBatch takes a lock; the pool manager hands the  *)
(* connection to one task at a time.                                       *)
(***************************************************************************)
PingFrame == <<"ping", 0, 0>>
Pong == <<"pong", 0, 0>>

\* what the backend answers to one frame
ReplyOf(f) == IF f = PingFrame THEN Pong ELSE <<"reply", f[2], f[3]>>

TakeAlways(h) == TRUE

\* the pool manager gives a connection only while it is in the free list
CanTake(h) == h = "free"

\* the traffic task takes the connection for one batch
TrafficTake ==
    /\ UNCHANGED notPingVars
    /\ tpc = "idle"
    /\ tround < MaxRounds
    /\ CanTake(holder)
    /\ holder' = "traffic"
    /\ tpc' = "write"
    /\ tround' = tround + 1
    /\ twi' = 0
    /\ tri' = 0
    /\ UNCHANGED <<psock, panswered, pwire, ppc, pings, phist>>

\* WriteBatch: one socket write of the Writer carries the next request
TrafficWrite ==
    /\ UNCHANGED notPingVars
    /\ tpc = "write"
    /\ psock' = Append(psock, <<"req", tround, twi + 1>>)
    /\ twi' = twi + 1
    /\ tpc' = IF twi + 1 = PingBatch THEN "read" ELSE "write"
    /\ UNCHANGED <<holder, panswered, pwire, tround, tri, ppc, pings, phist>>

\* ReadBatch: the Reader takes the next reply from the socket
TrafficRead ==
    /\ UNCHANGED notPingVars
    /\ tpc = "read"
    /\ pwire # <<>>
    /\ phist' = [phist EXCEPT !.trafficGot = Append(@, Head(pwire))]
    /\ pwire' = Tail(pwire)
    /\ tri' = tri + 1
    /\ tpc' = IF tri + 1 = PingBatch THEN "give" ELSE "read"
    /\ UNCHANGED <<holder, psock, panswered, tround, twi, ppc, pings>>

\* the traffic task puts the connection back
TrafficGive ==
    /\ UNCHANGED notPingVars
    /\ tpc = "give"
    /\ holder' = "free"
    /\ tpc' = "idle"
    /\ UNCHANGED <<psock, panswered, pwire, tround, twi, tri, ppc, pings, phist>>

\* the health task takes the connection for one ping
HealthTake ==
    /\ UNCHANGED notPingVars
    /\ ppc = "idle"
    /\ pings < MaxPings
    /\ CanTake(holder)
    /\ holder' = "health"
    /\ ppc' = "write"
    /\ pings' = pings + 1
    /\ UNCHANGED <<psock, panswered, pwire, tpc, tround, twi, tri, phist>>

\* Ping: the pinger writes its frame to the socket
PingWrite ==
    /\ UNCHANGED notPingVars
    /\ ppc = "write"
    /\ psock' = Append(psock, PingFrame)
    /\ ppc' = "read"
    /\ UNCHANGED <<holder, panswered, pwire, tpc, tround, twi, tri, pings, phist>>

\* Ping: the pinger reads one reply from the socket
PingRead ==
    /\ UNCHANGED notPingVars
    /\ ppc = "read"
    /\ pwire # <<>>
    /\ phist' = [phist EXCEPT !.pingGot = Append(@, Head(pwire))]
    /\ pwire' = Tail(pwire)
    /\ ppc' = "give"
    /\ UNCHANGED <<holder, psock, panswered, tpc, tround, twi, tri, pings>>

\* the health task puts the connection back
HealthGive ==
    /\ UNCHANGED notPingVars
    /\ ppc = "give"
    /\ holder' = "free"
    /\ ppc' = "idle"
    /\ UNCHANGED <<psock, panswered, pwire, tpc, tround, twi, tri, pings, phist>>

\* the backend answers the frames in the order they arrived
BackendReply ==
    /\ UNCHANGED notPingVars
    /\ panswered < Len(psock)
    /\ pwire' = Append(pwire, ReplyOf(psock[panswered + 1]))
    /\ panswered' = panswered + 1
    /\ UNCHANGED <<holder, psock, tpc, tround, twi, tri, ppc, pings, phist>>

InitPingVars ==
    /\ holder = "free"
    /\ psock = <<>>
    /\ panswered = 0
    /\ pwire = <<>>
    /\ tpc = "idle" /\ tround = 0 /\ twi = 0 /\ tri = 0
    /\ ppc = "idle" /\ pings = 0
    /\ phist = [trafficGot |-> <<>>, pingGot |-> <<>>]

\* both tasks at rest, for the specifications that do not run them
ParkPing ==
    /\ holder = "free" /\ psock = <<>> /\ panswered = 0 /\ pwire = <<>>
    /\ tpc = "parked" /\ tround = 0 /\ twi = 0 /\ tri = 0
    /\ ppc = "parked" /\ pings = 0 /\ phist = <<>>

NextPing ==
    \/ TrafficTake
    \/ TrafficWrite
    \/ TrafficRead
    \/ TrafficGive
    \/ HealthTake
    \/ PingWrite
    \/ PingRead
    \/ HealthGive
    \/ BackendReply

(***************************************************************************)
(* The Memcached node connection: Read, once for every message of a frame, *)
(* over the Reader of lib/bufio and the buffer pool; then the handler      *)
(* encodes and flushes the frame and the messages give their buffers back. *)
(***************************************************************************)
McIds == 1..McMsgs
McKinds == {"set", "miss", "hit"}

\* the bytes the backend sends for message k: a line that ends in the
\* delimiter (the line END for a miss), and the data after it for a hit
RECURSIVE Fill(_, _)
Fill(x, n) == IF n = 0 THEN <<>> ELSE <<x>> \o Fill(x, n - 1)

ReplyBytes(k, kind) ==
    Fill(<<k, IF kind = "miss" THEN "end" ELSE "b">>, LineLen - 1)
        \o <<(<<k, "nl">>)>>
        \o (IF kind = "hit" THEN Fill(<<k, "d">>, DataLen) ELSE <<>>)

RECURSIVE AllReplies(_, _)
AllReplies(ms, k) ==
    IF k > McMsgs THEN <<>>
    ELSE ReplyBytes(k, ms[k].kind) \o AllReplies(ms, k + 1)

\* Buffer: buffered(), Reset(), grow(), Advance(n)
buffered(b) == Len(b.data) - b.r
BufReset(b) == [b EXCEPT !.data = <<>>, !.r = 0]
grow(b) == [b EXCEPT !.cap = 2 * @]
Advance(b, n) == [b EXCEPT !.r = @ + n]

\* bytes.IndexByte(buf[r:w], delim) + 1: 0 when there is no delimiter
RECURSIVE IndexByte(_, _)
IndexByte(b, i) ==
    IF b.r + i > Len(b.data) THEN 0
    ELSE IF b.data[b.r + i][2] = "nl" THEN i
    ELSE IndexByte(b, i + 1)

\* what ResetBuffer does to the pool: Put(r.b) when r.b is not nil
ResetPut(pl, old) == IF old # 0 THEN pl \cup {old} ELSE pl

\* Reader.ResetBuffer(b): reset b, copy the unread bytes of the bound buffer
\* into it, put the bound buffer into the pool, bind b
ResetBuffer(bs, old, new) ==
    LET n == IF old # 0 /\ buffered(bs[old]) > 0
             THEN Min(bs[new].cap, buffered(bs[old])) ELSE 0
        kept == IF n = 0 THEN <<>>
                ELSE SubSeq(bs[old].data, bs[old].r + 1, bs[old].r + n)
    IN [bs EXCEPT ![new] = [cap |-> bs[new].cap, data |-> kept, r |-> 0]]

\* Read(m) up to the first ReadUntil: the closed check passes, the Reader
\* is rebound to the buffer of the message
McReadBegin ==
    /\ UNCHANGED notMcVars
    /\ mcpc = "next"
    /\ mcCur < McMsgs
    /\ mcCur' = mcCur + 1
    /\ bufs' = ResetBuffer(bufs, mcBr, mcMsgs[mcCur + 1].buf)
    /\ pool' = ResetPut(pool, mcBr)
    /\ mcBr' = mcMsgs[mcCur + 1].buf
    /\ mcpc' = "until"
    /\ UNCHANGED <<mcWire, mcMsgs, mcLine, mcErr>>

\* one round of the loop of ReadUntil(delim) and, when there is a line,
\* the rest of Read for a reply without data
McReadUntil ==
    /\ UNCHANGED notMcVars
    /\ mcpc = "until"
    /\ LET b == bufs[mcBr]
           i == IndexByte(b, 1)
       IN IF i > 0
          THEN IF b.data[b.r + 1][2] = "end" \/ mcMsgs[mcCur].kind # "hit"
               THEN /\ bufs' = [bufs EXCEPT ![mcBr] =
                                  IF b.data[b.r + 1][2] = "end"
                                  THEN Advance(b, i)
                                  ELSE Advance(Advance(b, i), -i)]
                    /\ mcMsgs' = [mcMsgs EXCEPT ![mcCur] =
                                    [@ EXCEPT !.buf = mcBr, !.st = "read",
                                              !.got = SubSeq(b.data, b.r + 1, b.r + i)]]
                    /\ mcpc' = "next"
                    /\ mcErr' = Nil
                    /\ UNCHANGED <<mcWire, mcLine>>
               ELSE /\ bufs' = [bufs EXCEPT ![mcBr] = Advance(b, i)]
                    /\ mcLine' = i
                    /\ mcpc' = "full"
                    /\ UNCHANGED <<mcWire, mcMsgs, mcErr>>
          ELSE LET g == IF Len(b.data) >= b.cap THEN grow(b) ELSE b
               IN \/ \E n \in 1..Min(Len(mcWire), g.cap - Len(g.data)) :
                       /\ bufs' = [bufs EXCEPT ![mcBr] =
                                     [g EXCEPT !.data = @ \o SubSeq(mcWire, 1, n)]]
                       /\ mcWire' = SubSeq(mcWire, n + 1, Len(mcWire))
                       /\ UNCHANGED <<mcMsgs, mcpc, mcLine, mcErr>>
                  \/ /\ bufs' = [bufs EXCEPT ![mcBr] = g]
                     /\ mcErr' = ErrIO
                     /\ mcpc' = "stop"
                     /\ UNCHANGED <<mcWire, mcMsgs, mcLine>>
    /\ UNCHANGED <<pool, mcBr, mcCur>>

\* one round of the loop of ReadFull(rlen) and, when the data is there,
\* the rest of Read for a reply with data
McReadFull ==
    /\ UNCHANGED notMcVars
    /\ mcpc = "full"
    /\ LET b == bufs[mcBr]
       IN IF buffered(b) >= DataLen
          THEN /\ bufs' = [bufs EXCEPT ![mcBr] =
                             Advance(Advance(Advance(b, DataLen), -mcLine), -DataLen)]
               /\ mcMsgs' = [mcMsgs EXCEPT ![mcCur] =
                               [@ EXCEPT !.buf = mcBr, !.st = "read",
                                         !.got = SubSeq(b.data, b.r - mcLine + 1,
                                                        b.r + DataLen)]]
               /\ mcpc' = "next"
               /\ mcErr' = Nil
               /\ UNCHANGED mcWire
          ELSE LET g == IF b.cap - b.r < DataLen THEN grow(b) ELSE b
               IN \/ \E n \in 1..Min(Len(mcWire), g.cap - Len(g.data)) :
                       /\ bufs' = [bufs EXCEPT ![mcBr] =
                                     [g EXCEPT !.data = @ \o SubSeq(mcWire, 1, n)]]
                       /\ mcWire' = SubSeq(mcWire, n + 1, Len(mcWire))
                       /\ UNCHANGED <<mcMsgs, mcpc, mcErr>>
                  \/ /\ bufs' = [bufs EXCEPT ![mcBr] = g]
                     /\ mcErr' = ErrIO
                     /\ mcpc' = "stop"
                     /\ UNCHANGED <<mcWire, mcMsgs>>
    /\ UNCHANGED <<pool, mcBr, mcCur, mcLine>>

\* the handler, after the last Read or a failed one: every message of the
\* frame is encoded and the frame is flushed to the client
McEncodeFlush ==
    /\ UNCHANGED notMcVars
    /\ \/ mcpc = "next" /\ mcCur = McMsgs
       \/ mcpc = "stop"
    /\ mcMsgs' = [k \in McIds |-> [mcMsgs[k] EXCEPT !.st = "flushed"]]
    /\ mcpc' = "recycle"
    /\ UNCHANGED <<bufs, pool, mcBr, mcWire, mcCur, mcLine, mcErr>>

\* after the flush a message is reset and gives its buffer back to the pool
McRecycle(k) ==
    /\ UNCHANGED notMcVars
    /\ mcpc = "recycle"
    /\ mcMsgs[k].st = "flushed"
    /\ mcMsgs' = [mcMsgs EXCEPT ![k] = [@ EXCEPT !.st = "free"]]
    /\ pool' = pool \cup {mcMsgs[k].buf}
    /\ UNCHANGED <<bufs, mcBr, mcWire, mcpc, mcCur, mcLine, mcErr>>

InitMcVars ==
    /\ bufs = [i \in McIds |-> [cap |-> BufCap, data |-> <<>>, r |-> 0]]
    /\ pool = {}
    /\ mcBr = 0
    /\ mcMsgs \in [McIds -> {[kind |-> kd, buf |-> 0, st |-> "pending", got |-> <<>>] :
                               kd \in McKinds}]
    /\ \A k \in McIds : mcMsgs[k].buf = 0
    /\ mcWire = <<>>
    /\ mcpc = "new"
    /\ mcCur = 0
    /\ mcLine = 0
    /\ mcErr = Nil

\* the codec decodes the frame: every message gets a buffer of its own from
\* the pool; the requests go to the backend, which answers them in order
McDecode ==
    /\ UNCHANGED notMcVars
    /\ mcpc = "new"
    /\ mcMsgs' = [k \in McIds |-> [mcMsgs[k] EXCEPT !.buf = k]]
    /\ mcWire' = AllReplies(mcMsgs, 1)
    /\ mcpc' = "next"
    /\ UNCHANGED <<bufs, pool, mcBr, mcCur, mcLine, mcErr>>

\* the connection at rest, for the specifications that do not run it
ParkMc ==
    /\ bufs = <<>> /\ pool = {} /\ mcBr = 0 /\ mcWire = <<>> /\ mcMsgs = <<>>
    /\ mcpc = "parked" /\ mcCur = 0 /\ mcLine = 0 /\ mcErr = Nil

NextMc ==
    \/ McDecode
    \/ McReadBegin
    \/ McReadUntil
    \/ McReadFull
    \/ McEncodeFlush
    \/ \E k \in McIds : McRecycle(k)

(***************************************************************************)
(* A Writer on its own: any sequence of Write and Flush calls, every       *)
(* socket write free to fail.  The history keeps the Writer as it was      *)
(* before the last call (before), the slices Write accepted (took), the    *)
(* error of the first failed socket write (sockErr), the call it failed in *)
(* (failedBy) and the calls made after it (after).                         *)
(***************************************************************************)
\* whether the call that led from writer a to writer b had a socket write fail
SockFailed(a, b) == b.n > a.n /\ b.out = a.out

Track(op, p, a, b) ==
    [op |-> op, p |-> p, before |-> a,
     took |-> IF op = "write" /\ p # Nil /\ a.err = Nil
              THEN Append(wh.took, p) ELSE wh.took,
     sockErr |-> IF wh.sockErr = Nil /\ SockFailed(a, b) THEN ErrIO ELSE wh.sockErr,
     failedBy |-> IF wh.sockErr = Nil /\ SockFailed(a, b) THEN op ELSE wh.failedBy,
     after |-> IF wh.sockErr # Nil THEN wh.after \cup {op} ELSE wh.after]

\* a call of Write with nil or with the next slice
WriterWrite ==
    /\ UNCHANGED notWriterVars
    /\ wops < MaxWriterOps
    /\ \E isNil \in BOOLEAN : \E ok \in BOOLEAN :
         LET p == IF isNil THEN Nil ELSE <<0, Len(wh.took) + 1>>
         IN  /\ wtr' = Write(wtr, p, ok)
             /\ wh' = Track("write", p, wtr, wtr')
    /\ wops' = wops + 1

\* a call of Flush
WriterFlush ==
    /\ UNCHANGED notWriterVars
    /\ wops < MaxWriterOps
    /\ \E ok \in BOOLEAN :
         /\ wtr' = Flush(wtr, ok)
         /\ wh' = Track("flush", Nil, wtr, wtr')
    /\ wops' = wops + 1

\* NewWriter
InitWriterVars ==
    /\ wtr = [bufs |-> <<>>, err |-> Nil, out |-> <<>>, n |-> 0, ret |-> Nil]
    /\ wops = 0
    /\ wh = [op |-> "none", p |-> Nil, before |-> wtr, took |-> <<>>,
             sockErr |-> Nil, failedBy |-> "none", after |-> {}]

ParkWriter == wtr = <<>> /\ wops = 0 /\ wh = <<>>

NextWriter ==
    \/ WriterWrite
    \/ WriterFlush

(***************************************************************************)
(* The message slots of one handler over the frames of a connection, for   *)
(* any value of the variables defaultConcurrent and maxConcurrent.         *)
(***************************************************************************)
\* one frame: Decode fills lastCount of the slots, then step 5 of handle,
\* messages = h.resetMaxConcurrent(messages, len(msgs))
SlotsFrame ==
    /\ UNCHANGED notSlotVars
    /\ slotFrames < MaxSlotFrames
    /\ \E lastCount \in 1..slots :
         LET n == resetSlots(slots, lastCount, slotCap)
             replaced == doubles(slots, lastCount, slotCap)
         IN  /\ slots' = n
             /\ slotGen' = IF replaced THEN slotGen + 1 ELSE slotGen
             /\ slotPool' = IF replaced THEN slotPool \cup {slotGen} ELSE slotPool
             /\ slotHist' = [lm |-> slots, lastCount |-> lastCount,
                             gen |-> slotGen, pool |-> slotPool,
                             peak |-> IF slots > slotHist.peak THEN slots
                                      ELSE slotHist.peak]
    /\ slotFrames' = slotFrames + 1
    /\ UNCHANGED slotCap

\* messages = proto.GetMsgs(defaultConcurrent), for any value not above the cap
InitSlotVars ==
    /\ slotCap \in 1..MaxCap
    /\ slots \in 1..slotCap
    /\ slotGen = 0
    /\ slotPool = {}
    /\ slotFrames = 0
    /\ slotHist = [lm |-> slots, lastCount |-> 0, gen |-> 0, pool |-> {},
                   peak |-> slots]

ParkSlots ==
    /\ slots = 0 /\ slotCap = 0 /\ slotGen = 0 /\ slotPool = {}
    /\ slotFrames = 0 /\ slotHist = <<>>

NextSlots ==
    \/ SlotsFrame

(***************************************************************************)
(* Redis: the resp values and RResponse.Merge over the sub-requests of a   *)
(* split command.  A resp is [rtype, data, array]; NilResp is the nil      *)
(* pointer.  A sub-request's response is [proto, err, obj]: whether its    *)
(* Proto() is a *RResponse, its Err(), and the respObj of that RResponse.  *)
(***************************************************************************)
respString == "+"
respError == "-"
respInt == ":"
respBulk == "$"
respArray == "*"

NilResp == [rtype |-> "nil", data |-> "", array |-> <<>>]

Digits == <<"0", "1", "2", "3", "4", "5", "6", "7", "8", "9">>

\* strconv.Itoa for a number that is not negative
RECURSIVE Itoa(_)
Itoa(n) == IF n < 10 THEN Digits[n + 1] ELSE Itoa(n \div 10) \o Digits[(n % 10) + 1]

newRespPlain(rtype, data) == [rtype |-> rtype, data |-> data, array |-> <<>>]
newRespString(val) == [rtype |-> respString, data |-> val, array |-> <<>>]
newRespArray(resps) == [rtype |-> respArray, data |-> "", array |-> resps]
\* newRespInt gives the value the type of an array
newRespInt(val) == [rtype |-> respArray, data |-> Itoa(val), array |-> <<>>]

\* what a backend can answer to a sub-request: an integer, a bulk string,
\* an error reply; or nothing, when the I/O on its batch failed
SubReplies ==
    {[proto |-> TRUE, err |-> Nil, obj |-> newRespPlain(respInt, "0")],
     [proto |-> TRUE, err |-> Nil, obj |-> newRespPlain(respInt, "1")],
     [proto |-> TRUE, err |-> Nil, obj |-> newRespPlain(respBulk, "v")],
     [proto |-> TRUE, err |-> "ErrReply", obj |-> newRespPlain(respError, "ERR")],
     [proto |-> FALSE, err |-> ErrIO, obj |-> NilResp]}

\* the response of sub-request i as Merge finds it
SubResp(i) ==
    IF subs[i].answered THEN subs[i].reply
    ELSE [proto |-> FALSE, err |-> Nil, obj |-> NilResp]

JoinByArrival == arrival

\* the order in which mergeJoin places the sub-responses: for idx, sub := range subs
JoinOrder == [i \in 1..Len(subs) |-> i]

\* case MergeTypeBasic: the branch returns when the assertion succeeds and
\* reads srr.respObj through the nil srr when it fails
mergeBasic ==
    IF SubResp(1).proto THEN [respObj |-> rr.respObj, panic |-> FALSE]
    ELSE [respObj |-> rr.respObj, panic |-> TRUE]

\* RResponse.mergeJoin
mergeJoin ==
    [respObj |-> newRespArray([k \in 1..Len(subs) |->
                     IF SubResp(JoinOrder[k]).proto
                     THEN SubResp(JoinOrder[k]).obj ELSE NilResp]),
     panic |-> FALSE]

\* RResponse.mergeCount
mergeCount ==
    [respObj |-> newRespInt(Cardinality({i \in 1..Len(subs) : SubResp(i).err = Nil})),
     panic |-> FALSE]

\* RResponse.mergeOk
RECURSIVE mergeOkFrom(_)
mergeOkFrom(i) ==
    IF i > Len(subs) THEN newRespString("OK")
    ELSE IF SubResp(i).err = Nil THEN mergeOkFrom(i + 1)
    ELSE IF ~SubResp(i).proto THEN mergeOkFrom(i + 1)
    ELSE SubResp(i).obj

mergeOk == [respObj |-> mergeOkFrom(1), panic |-> FALSE]

\* a backend answers sub-request i, or the I/O of its batch ends in an error
SubAnswer(i) ==
    /\ UNCHANGED notMergeVars
    /\ mgpc = "wait"
    /\ i \in 1..Len(subs)
    /\ ~subs[i].answered
    /\ subs' = [subs EXCEPT ![i].answered = TRUE]
    /\ arrival' = Append(arrival, i)
    /\ UNCHANGED <<mergeType, rr, mgpc>>

\* RResponse.Merge(subs), after every sub-request is done
Merge ==
    /\ UNCHANGED notMergeVars
    /\ mgpc = "wait"
    /\ \A i \in 1..Len(subs) : subs[i].answered
    /\ rr' = CASE mergeType = "basic" -> mergeBasic
               [] mergeType = "join" -> mergeJoin
               [] mergeType = "count" -> mergeCount
               [] mergeType = "ok" -> mergeOk
    /\ mgpc' = "merged"
    /\ UNCHANGED <<mergeType, subs, arrival>>

\* newRResponse(mergeType) and the sub-requests of the split command
InitMergeVars ==
    /\ mergeType \in {"basic", "join", "count", "ok"}
    /\ \E n \in 1..MaxSubs :
         subs \in [1..n -> {[reply |-> r, answered |-> FALSE] : r \in SubReplies}]
    /\ arrival = <<>>
    /\ rr = [respObj |-> NilResp, panic |-> FALSE]
    /\ mgpc = "wait"

ParkMerge ==
    /\ mergeType = "none" /\ subs = <<>> /\ arrival = <<>> /\ rr = <<>>
    /\ mgpc = "parked"

NextMerge ==
    \/ \E i \in 1..MaxSubs : SubAnswer(i)
    \/ Merge

(***************************************************************************)
(* Redis: RRequest.Batch, the split of a multi-key request.                *)
(***************************************************************************)
\* batchStep of a request that is not split
defaultBatchStep == 0

\* getBatchStep and getBatchCmd: the step and the per-key command of a command
getBatchStep(cmd) ==
    CASE cmd = "MSET" -> 2
      [] cmd \in {"MGET", "DEL"} -> 1
      [] OTHER -> defaultBatchStep

getBatchCmd(cmd) ==
    CASE cmd = "MSET" -> "SET"
      [] cmd = "MGET" -> "GET"
      [] OTHER -> cmd

\* items := (rr.respObj.Len() - 1) / step
Items(n, step) == n \div step

\* RRequest.batchByStep: the sub-requests
batchByStep(r, step) ==
    [i \in 1..Items(Len(r.args), step) |->
        [cmd |-> getBatchCmd(r.cmd),
         args |-> SubSeq(r.args, (i - 1) * step + 1, i * step),
         batchStep |-> defaultBatchStep]]

\* RRequest.batchOne: the request itself
batchOne(r) == <<[cmd |-> r.cmd, args |-> r.args, batchStep |-> getBatchStep(r.cmd)]>>

\* RRequest.IsBatch
IsBatch(r) == getBatchStep(r.cmd) # defaultBatchStep

\* RRequest.Batch
Batch ==
    /\ UNCHANGED notSplitVars
    /\ spc = "new"
    /\ ssubs' = IF getBatchStep(sreq.cmd) = defaultBatchStep
                THEN batchOne(sreq)
                ELSE batchByStep(sreq, getBatchStep(sreq.cmd))
    /\ spc' = "split"
    /\ UNCHANGED sreq

\* newRRequest of a decoded request: a command and 1..MaxArgs arguments
InitSplitVars ==
    /\ \E n \in 1..MaxArgs :
         sreq \in [cmd : {"GET", "MGET", "MSET", "DEL"}, args : [1..n -> {"a", "b"}]]
    /\ ssubs = <<>>
    /\ spc = "new"

ParkSplit == sreq = <<>> /\ ssubs = <<>> /\ spc = "parked"

NextSplit ==
    \/ Batch

(***************************************************************************)
(* The health loop of one backend: the consecutive-failure count, the      *)
(* ejection from the ring and the return to it.                            *)
(***************************************************************************)
KeepOnSuccess(c) == c

\* the count after a successful ping
ResetOnSuccess(c) == 0

\* whether the backend is out of the ring at a count of c failures
Ejected(c) == autoEject /\ c >= failLimit

\* the probe's ping failed
HealthPingFail ==
    /\ UNCHANGED notHealthVars
    /\ Len(hlog) < MaxHealthPings
    /\ fails' = fails + 1
    /\ inRing' = ~Ejected(fails + 1)
    /\ hlog' = Append(hlog, FALSE)
    /\ UNCHANGED <<failLimit, autoEject>>

\* the probe's ping succeeded
HealthPingOk ==
    /\ UNCHANGED notHealthVars
    /\ Len(hlog) < MaxHealthPings
    /\ fails' = ResetOnSuccess(fails)
    /\ inRing' = ~Ejected(ResetOnSuccess(fails))
    /\ hlog' = Append(hlog, TRUE)
    /\ UNCHANGED <<failLimit, autoEject>>

InitHealthVars ==
    /\ failLimit \in 1..MaxFailLimit
    /\ autoEject \in BOOLEAN
    /\ fails = 0
    /\ inRing = TRUE
    /\ hlog = <<>>

ParkHealth ==
    /\ failLimit = 0 /\ autoEject = FALSE /\ fails = 0 /\ inRing = FALSE
    /\ hlog = <<>>

NextHealth ==
    \/ HealthPingFail
    \/ HealthPingOk

(***************************************************************************)
(* The Memcached pinger over a test connection that holds a fixed run of   *)
(* bytes: Ping writes one frame and reads one line, Close closes once.     *)
(***************************************************************************)
\* the bytes of a connection: a line is ended by "\n"
ConnByte == {"S", "x", "\n"}

\* the reply a ping expects (STORED\r\n)
pongBytes == <<"S", "\n">>

\* the length of the first complete line of b, zero when there is none
LineEnd(b) ==
    IF \E i \in 1..Len(b) : b[i] = "\n"
    THEN CHOOSE i \in 1..Len(b) : b[i] = "\n" /\ \A j \in 1..(i - 1) : b[j] # "\n"
    ELSE 0

PeekLine(b) == b

\* the bytes left after the line Ping reads
TakeLine(b) == SubSeq(b, LineEnd(b) + 1, Len(b))

OpenAlways(st) == FALSE

\* the check Ping and Close make on the pinger's state
IsClosed(st) == st = handlerClosed

\* mcPinger.Ping
PingerPing ==
    /\ UNCHANGED notPingerVars
    /\ Len(pgHist) < MaxPingerOps
    /\ IF IsClosed(pgState)
       THEN /\ pgHist' = Append(pgHist, [op |-> "Ping", ret |-> ErrPingerClosed])
            /\ UNCHANGED <<pgUnread, pgSent>>
       ELSE /\ pgSent' = pgSent + 1
            /\ IF LineEnd(pgUnread) = 0
               THEN /\ pgHist' = Append(pgHist, [op |-> "Ping", ret |-> ErrBufferFull])
                    /\ UNCHANGED pgUnread
               ELSE /\ pgUnread' = TakeLine(pgUnread)
                    /\ pgHist' = Append(pgHist,
                           [op |-> "Ping",
                            ret |-> IF SubSeq(pgUnread, 1, LineEnd(pgUnread)) = pongBytes
                                    THEN Nil ELSE ErrPingerPong])
    /\ UNCHANGED <<connBytes, pgState>>

\* mcPinger.Close
PingerClose ==
    /\ UNCHANGED notPingerVars
    /\ Len(pgHist) < MaxPingerOps
    /\ pgState' = handlerClosed
    /\ pgHist' = Append(pgHist, [op |-> "Close", ret |-> Nil])
    /\ UNCHANGED <<connBytes, pgUnread, pgSent>>

InitPingerVars ==
    /\ connBytes \in UNION {[1..n -> ConnByte] : n \in 0..MaxConnBytes}
    /\ pgUnread = connBytes
    /\ pgState = handlerOpening
    /\ pgSent = 0
    /\ pgHist = <<>>

ParkPinger ==
    /\ connBytes = <<>> /\ pgUnread = <<>> /\ pgState = handlerOpening
    /\ pgSent = 0 /\ pgHist = <<>>

NextPinger ==
    \/ PingerPing
    \/ PingerClose

(***************************************************************************)
(* The slab Reader.  The source stream is the bytes 1, 2, ..., SrcLen, so   *)
(* that every byte is recognised; a byte of buf never written is 0.  The   *)
(* source gives any positive part of what is asked for, io.EOF at its end, *)
(* and now and then another error (a timeout) without bytes.               *)
(***************************************************************************)
Stream == [i \in 1..SrcLen |-> i]

RECURSIVE growCap(_, _)
growCap(cap, except) ==
    IF cap <= except THEN growCap(cap * growFactor, except) ELSE cap

\* Reader.growSize
growSize(r, size) ==
    LET keep == SubSeq(r.buf, r.free + 1, r.acquired)
        cap  == growCap(Len(r.buf), r.acquired - r.free + size)
    IN  [buf      |-> [i \in 1..cap |-> IF i <= Len(keep) THEN keep[i] ELSE 0],
         free     |-> 0,
         acquired |-> r.acquired - r.free,
         readed   |-> r.readed - r.free]

\* Reader.grow
slabGrow(r) == growSize(r, Len(r.buf))

\* Reader.shrink
shrink(r) ==
    LET keep == SubSeq(r.buf, r.free + 1, r.acquired)
    IN  [buf      |-> [i \in 1..Len(r.buf) |->
                          IF i <= Len(keep) THEN keep[i] ELSE r.buf[i]],
         free     |-> 0,
         acquired |-> r.acquired - r.free,
         readed   |-> r.readed - r.free]

hasUnreaded(r) == r.readed < r.acquired

isFull(r) == Len(r.buf) = r.acquired

\* Reader.allocBuf: the slice is buf[at : at+len]
allocBuf(r, size) ==
    [r |-> [r EXCEPT !.acquired = @ + size], at |-> r.acquired, len |-> size]

\* Reader.alloc
alloc(r, size) ==
    LET remaining == Len(r.buf) - r.acquired
    IN  IF size = allocInf
        THEN allocBuf(IF isFull(r) THEN slabGrow(r) ELSE r, remaining)
        ELSE allocBuf(IF remaining < size
                      THEN IF remaining + r.free < size
                           THEN growSize(r, size) ELSE shrink(r)
                      ELSE r,
                      size)

\* Reader.releaseTop
releaseTop(r, size) == [r EXCEPT !.acquired = @ - size]

\* Reader.unreaded
unreaded(r) == SubSeq(r.buf, r.readed + 1, r.acquired)

\* bytes.IndexByte, counted from 1; 0 when the byte is absent
IndexOf(b, delim) ==
    IF \E i \in 1..Len(b) : b[i] = delim
    THEN CHOOSE i \in 1..Len(b) : b[i] = delim /\ \A j \in 1..(i - 1) : b[j] # delim
    ELSE 0

\* rd.Read into buf[at : at+n]: the bytes land in the slice
Filled(r, at, bytes) ==
    [r EXCEPT !.buf = [i \in 1..Len(r.buf) |->
                          IF i > at /\ i <= at + Len(bytes)
                          THEN bytes[i - at] ELSE r.buf[i]]]

Returns(op, data, err) == Append(slHist, [op |-> op, data |-> data, err |-> err])

Idle == slCall.op = "idle" /\ Len(slHist) < MaxSlabOps

\* rd.Read(b) with len(b) = n > 0: what the source can give
SrcReads(n) ==
    {[bytes |-> SubSeq(rd, 1, k), err |-> Nil] : k \in 1..Min(n, Len(rd))}
    \cup (IF rd = <<>> THEN {[bytes |-> <<>>, err |-> EOF]} ELSE {})
    \cup (IF rdErrs[ErrIO] < MaxSrcErrs
          THEN {[bytes |-> <<>>, err |-> ErrIO]} ELSE {})

\* the source after it gave o
SrcGave(o) ==
    /\ rd' = SubSeq(rd, Len(o.bytes) + 1, Len(rd))
    /\ rdErrs' = IF o.err = Nil THEN rdErrs ELSE [rdErrs EXCEPT ![o.err] = @ + 1]

\* Reader.ReadByte
SlabReadByte ==
    /\ UNCHANGED notSlabVars
    /\ Idle
    /\ IF hasUnreaded(slab)
       THEN /\ slab' = [slab EXCEPT !.readed = @ + 1]
            /\ slHist' = Returns("ReadByte", <<slab.buf[slab.readed + 1]>>, Nil)
            /\ UNCHANGED <<rd, rdErrs>>
       ELSE LET a == alloc(slab, 1)
            IN  \E o \in SrcReads(1) :
                /\ SrcGave(o)
                /\ IF o.err = EOF
                   THEN /\ slab' = a.r
                        /\ slHist' = Returns("ReadByte", <<a.r.buf[a.at + 1]>>, EOF)
                   ELSE IF o.err # Nil
                   THEN /\ slab' = a.r
                        /\ slHist' = Returns("ReadByte", <<0>>, o.err)
                   ELSE LET f == Filled(a.r, a.at, o.bytes)
                        IN  /\ slab' = [f EXCEPT !.readed = @ + 1]
                            /\ slHist' = Returns("ReadByte", <<f.buf[a.at + 1]>>, Nil)
    /\ UNCHANGED slCall

\* tryReadExact(n) with its loop run to its end: how many bytes it got and
\* the error that stopped it; the parts the source gives add up to the same
\* bytes
ExactOutcomes(n) ==
    {o \in [count : 0..Min(n, Len(rd)), err : {Nil, EOF, ErrIO}] :
        IF o.count = n THEN o.err = Nil
        ELSE \/ o.err = EOF /\ o.count = Len(rd)
             \/ o.err = ErrIO /\ rdErrs[ErrIO] < MaxSrcErrs}

\* Reader.ReadFull
SlabReadFull ==
    /\ UNCHANGED notSlabVars
    /\ Idle
    /\ \E n \in 1..MaxAsk :
        LET a == alloc(slab, n)
        IN  \E o \in ExactOutcomes(n) :
            LET f == Filled(a.r, a.at, SubSeq(rd, 1, o.count))
            IN  /\ SrcGave([bytes |-> SubSeq(rd, 1, o.count), err |-> o.err])
                /\ slab' = IF o.err = Nil THEN f ELSE releaseTop(f, n - o.count)
                /\ slHist' = Returns("ReadFull",
                                     SubSeq(f.buf, a.at + 1, a.at + o.count), o.err)
    /\ UNCHANGED slCall

\* Reader.Release
SlabRelease ==
    /\ UNCHANGED notSlabVars
    /\ Idle
    /\ \E size \in 1..MaxAsk :
        slab' = [slab EXCEPT !.free = Min(slab.free + size, slab.readed)]
    /\ slHist' = Returns("Release", <<>>, Nil)
    /\ UNCHANGED <<rd, slCall, rdErrs>>

\* a call of ReadBytes or of ReadSlice enters its loop
SlabReadUntil ==
    /\ UNCHANGED notSlabVars
    /\ Idle
    /\ \E op \in {"ReadBytes", "ReadSlice"}, delim \in 1..SrcLen :
        slCall' = [op |-> op, delim |-> delim]
    /\ UNCHANGED <<slab, rd, slHist, rdErrs>>

\* what the loop does with the error of tryReadBufFull:
\* if err != nil && err == io.EOF { return nil, err }; continue
ReturnsOn(err) == err # Nil /\ err = EOF

\* tryReadBufFull on the Reader r of the call in progress, and the
\* loop's return or continue after it.  On an error of the source the
\* bytes allocated stay acquired
TryReadBufFull(r) ==
    LET a == alloc(r, allocInf)
    IN  IF a.len = 0
        THEN /\ slab' = a.r
             /\ UNCHANGED <<rd, slCall, slHist, rdErrs>>
        ELSE \E o \in SrcReads(a.len) :
             /\ SrcGave(o)
             /\ slab' = IF o.err # Nil THEN a.r
                        ELSE releaseTop(Filled(a.r, a.at, o.bytes),
                                        a.len - Len(o.bytes))
             /\ IF ReturnsOn(o.err)
                THEN /\ slHist' = Returns(slCall.op, <<>>, o.err)
                     /\ slCall' = [op |-> "idle", delim |-> 0]
                ELSE UNCHANGED <<slCall, slHist>>

\* one turn of the loop of ReadBytes or of ReadSlice
SlabReadUntilStep ==
    /\ UNCHANGED notSlabVars
    /\ slCall.op # "idle"
    /\ LET pos == IndexOf(unreaded(slab), slCall.delim)
       IN  IF pos # 0
           THEN /\ slab' = [slab EXCEPT !.readed = @ + pos]
                /\ slHist' = Returns(slCall.op,
                                     SubSeq(slab.buf, slab.readed + 1, slab.readed + pos), Nil)
                /\ slCall' = [op |-> "idle", delim |-> 0]
                /\ UNCHANGED <<rd, rdErrs>>
           ELSE IF slCall.op = "ReadSlice"
           THEN IF isFull(slab) /\ slab.free = 0
                THEN /\ slHist' = Returns(slCall.op, unreaded(slab), ErrBufferFull)
                     /\ slCall' = [op |-> "idle", delim |-> 0]
                     /\ UNCHANGED <<slab, rd, rdErrs>>
                ELSE TryReadBufFull(IF isFull(slab) THEN shrink(slab) ELSE slab)
           ELSE TryReadBufFull(IF isFull(slab) THEN slabGrow(slab) ELSE slab)

InitSlabVars ==
    /\ \E size \in 1..MaxSize :
        slab = [buf |-> [i \in 1..size |-> 0], free |-> 0, acquired |-> 0, readed |-> 0]
    /\ rd = Stream
    /\ slCall = [op |-> "idle", delim |-> 0]
    /\ slHist = <<>>
    /\ rdErrs = [e \in {EOF, ErrIO} |-> 0]

ParkSlab ==
    /\ slab = [buf |-> <<>>, free |-> 0, acquired |-> 0, readed |-> 0]
    /\ rd = <<>>
    /\ slCall = [op |-> "idle", delim |-> 0]
    /\ slHist = <<>> /\ rdErrs = <<>>

NextSlab ==
    \/ SlabReadByte
    \/ SlabReadFull
    \/ SlabRelease
    \/ SlabReadUntil
    \/ SlabReadUntilStep

(***************************************************************************)
(* The buffers of one frame in the tail of Handler.handle: Encode lends    *)
(* slices of the batch buffers and of the messages to the client Writer,   *)
(* the Writer sends them, and the reset of messages and batches ends the   *)
(* cycle.  A slice is <<owner kind, owner, the owner's reset count when    *)
(* it was lent>>.                                                          *)
(***************************************************************************)
\* the slice still holds the bytes Encode lent
Valid(sl) ==
    IF sl[1] = "mb" THEN mbGen[sl[2]] = sl[3] ELSE msgGen[sl[2]] = sl[3]

\* the slices of one reply held in the batch buffer of node n
ReplySlices(n) == [k \in 1..SlicesPerReply |-> <<"mb", n, mbGen[n]>>]

\* ProxyConn.Encode: the slices lent for message i, in write order.  A
\* message without sub-messages lends its reply; a message with them lends
\* a header of its own and the reply of every sub-message
EncodeSlices(i) ==
    IF lframe[i].subs = <<>>
    THEN ReplySlices(lframe[i].node)
    ELSE <<<<"msg", i, msgGen[i]>>>>
         \o Flatten([k \in 1..lframe[i].reqn |-> ReplySlices(lframe[i].subs[k])])

ResetSubsFreesBuffers(gen, m) ==
    [n \in Nodes |-> IF \E k \in 1..m.reqn : m.subs[k] = n THEN gen[n] + 1 ELSE gen[n]]

\* Message.ResetSubs, on the batch buffers: it clears the list of
\* sub-messages and leaves the buffers their replies lie in alone
ResetSubsBuffers(gen, m) == gen

\* how many of the slices the socket takes in this step are stale
StaleIn(w2) ==
    Cardinality({k \in (Len(lw.out) + 1)..Len(w2.out) : ~Valid(w2.out[k])})

\* deferHandle: PutMsgs, PutMsgBatchs (mb.buf.Reset), closeWithError
LendDefer ==
    /\ lpc' = "closed"
    /\ msgGen' = [i \in DOMAIN msgGen |-> msgGen[i] + 1]
    /\ mbGen' = [n \in Nodes |-> mbGen[n] + 1]

\* the nodes the ring gives the keys of a frame: the i-th message's own key
\* and the keys of its sub-messages go to the nodes in turn
NodeOf(i) == ((i - 1) % NumNodes) + 1
SubNode(i, k) == ((i + k - 2) % NumNodes) + 1

\* steps 1 to 3: a frame is decoded, dispatched and answered; the Writer's
\* record of what the socket took starts anew with the frame
LendBegin ==
    /\ UNCHANGED notLendVars
    /\ lpc = "decode"
    /\ lcycles < MaxCycles
    /\ \E n \in 1..LendFrame :
       \E reqn \in [1..n -> 0..MaxSubs] :
          lframe' = [i \in 1..n |->
                        [node |-> NodeOf(i),
                         subs |-> [k \in 1..reqn[i] |-> SubNode(i, k)],
                         reqn |-> reqn[i]]]
    /\ lpc' = "encode"
    /\ lei' = 1
    /\ lcycles' = lcycles + 1
    /\ lw' = [lw EXCEPT !.out = <<>>, !.n = 0]
    /\ UNCHANGED <<mbGen, msgGen, lstale>>

\* step 4, one turn: h.pc.Encode(msg), then msg.MarkEnd and msg.ResetSubs,
\* or h.pc.Flush and deferHandle when Encode fails
LendEncode ==
    /\ UNCHANGED notLendVars
    /\ lpc = "encode"
    /\ \E enc \in BOOLEAN, ok \in BOOLEAN :
        LET w2 == IF enc THEN WriteAll(lw, EncodeSlices(lei), ok) ELSE lw
        IN  IF enc /\ w2.ret = Nil
            THEN /\ lw' = w2
                 /\ lstale' = lstale + StaleIn(w2)
                 /\ lframe' = [lframe EXCEPT ![lei].reqn = 0]
                 /\ mbGen' = ResetSubsBuffers(mbGen, lframe[lei])
                 /\ IF lei < Len(lframe)
                    THEN lei' = lei + 1 /\ UNCHANGED lpc
                    ELSE lpc' = "flush" /\ UNCHANGED lei
                 /\ UNCHANGED msgGen
            ELSE LET w3 == Flush(w2, ok)
                 IN  /\ lw' = w3
                     /\ lstale' = lstale + StaleIn(w3)
                     /\ LendDefer
                     /\ UNCHANGED <<lframe, lei>>
    /\ UNCHANGED lcycles

\* h.pc.Flush() after the encode loop
LendFlush ==
    /\ UNCHANGED notLendVars
    /\ lpc = "flush"
    /\ \E ok \in BOOLEAN :
        LET w2 == Flush(lw, ok)
        IN  /\ lw' = w2
            /\ lstale' = lstale + StaleIn(w2)
            /\ IF w2.ret = Nil
               THEN lpc' = "release" /\ UNCHANGED <<mbGen, msgGen>>
               ELSE LendDefer
    /\ UNCHANGED <<lframe, lei, lcycles>>

\* the release of the frame: msg.Reset for every message of the frame,
\* mb.Reset for every batch
LendRelease ==
    /\ UNCHANGED notLendVars
    /\ lpc = "release"
    /\ msgGen' = [i \in DOMAIN msgGen |->
                     IF i <= Len(lframe) THEN msgGen[i] + 1 ELSE msgGen[i]]
    /\ mbGen' = [n \in Nodes |-> mbGen[n] + 1]
    /\ lpc' = "decode"
    /\ UNCHANGED <<lframe, lei, lw, lstale, lcycles>>

InitLendVars ==
    /\ lpc = "decode"
    /\ lframe = <<>>
    /\ lei = 1
    /\ mbGen = [n \in Nodes |-> 0]
    /\ msgGen = [i \in 1..LendFrame |-> 0]
    /\ lw = [bufs |-> <<>>, err |-> Nil, out |-> <<>>, n |-> 0, ret |-> Nil]
    /\ lstale = 0
    /\ lcycles = 0

ParkLend ==
    /\ lpc = "parked" /\ lframe = <<>> /\ lei = 0 /\ mbGen = <<>>
    /\ msgGen = <<>> /\ lw = <<>> /\ lstale = 0 /\ lcycles = 0

NextLend ==
    \/ LendBegin
    \/ LendEncode
    \/ LendFlush
    \/ LendRelease

(***************************************************************************)
(* Handler.closeWithError, called by several tasks with different errors;  *)
(* every statement of it is one step.                                      *)
(***************************************************************************)
\* the errors a handler is closed with
CloseErrors == {EOF, ErrIO}

\* if atomic.CompareAndSwapInt32(&h.closed, handlerOpening, handlerClosed)
CloseWithError(t) ==
    /\ UNCHANGED notHcloseVars
    /\ kpc[t] = "idle"
    /\ kcalls[t] < MaxCloseCalls
    /\ kcalls' = [kcalls EXCEPT ![t] = @ + 1]
    /\ \E e \in CloseErrors :
        /\ kerr' = [kerr EXCEPT ![t] = e]
        /\ IF CompareAndSwap(hclosed)
           THEN /\ hclosed' = handlerClosed
                /\ kpc' = [kpc EXCEPT ![t] = "err"]
                /\ khist' = [first |-> IF khist.first = <<>> THEN <<e>>
                                       ELSE khist.first,
                             wasClosed |-> TRUE]
           ELSE /\ khist' = [khist EXCEPT !.wasClosed =
                                @ \/ hclosed = handlerClosed]
                /\ UNCHANGED <<hclosed, kpc>>
    /\ UNCHANGED <<promOn, hErr, hdone>>

\* h.err = err
CloseSetErr(t) ==
    /\ UNCHANGED notHcloseVars
    /\ kpc[t] = "err"
    /\ hErr' = kerr[t]
    /\ kpc' = [kpc EXCEPT ![t] = "cancel"]
    /\ UNCHANGED <<promOn, hclosed, hdone, kerr, kcalls, khist>>

\* h.cancel()
CloseCancel(t) ==
    /\ UNCHANGED notHcloseVars
    /\ kpc[t] = "cancel"
    /\ hdone' = [hdone EXCEPT !.cancel = @ + 1]
    /\ kpc' = [kpc EXCEPT ![t] = "msgCh"]
    /\ UNCHANGED <<promOn, hclosed, hErr, kerr, kcalls, khist>>

\* h.msgCh.Close()
CloseMsgCh(t) ==
    /\ UNCHANGED notHcloseVars
    /\ kpc[t] = "msgCh"
    /\ hdone' = [hdone EXCEPT !.msgCh = @ + 1]
    /\ kpc' = [kpc EXCEPT ![t] = "conn"]
    /\ UNCHANGED <<promOn, hclosed, hErr, kerr, kcalls, khist>>

\* _ = h.conn.Close()
CloseClientConn(t) ==
    /\ UNCHANGED notHcloseVars
    /\ kpc[t] = "conn"
    /\ hdone' = [hdone EXCEPT !.conn = @ + 1]
    /\ kpc' = [kpc EXCEPT ![t] = "gauge"]
    /\ UNCHANGED <<promOn, hclosed, hErr, kerr, kcalls, khist>>

\* if prom.On { prom.ConnDecr(h.cluster.cc.Name) }, and the return
CloseConnDecr(t) ==
    /\ UNCHANGED notHcloseVars
    /\ kpc[t] = "gauge"
    /\ hdone' = IF promOn THEN [hdone EXCEPT !.gauge = @ + 1] ELSE hdone
    /\ kpc' = [kpc EXCEPT ![t] = "idle"]
    /\ UNCHANGED <<promOn, hclosed, hErr, kerr, kcalls, khist>>

InitHcloseVars ==
    /\ promOn \in BOOLEAN
    /\ hclosed = handlerOpening
    /\ hErr = Nil
    /\ hdone = [cancel |-> 0, msgCh |-> 0, conn |-> 0, gauge |-> 0]
    /\ kpc = [t \in Closers |-> "idle"]
    /\ kerr = [t \in Closers |-> Nil]
    /\ kcalls = [t \in Closers |-> 0]
    /\ khist = [first |-> <<>>, wasClosed |-> FALSE]

ParkHclose ==
    /\ promOn = FALSE /\ hclosed = handlerOpening /\ hErr = Nil
    /\ hdone = <<>> /\ kpc = <<>> /\ kerr = <<>> /\ kcalls = <<>>
    /\ khist = <<>>

NextHclose ==
    \/ \E t \in Closers : CloseWithError(t)
    \/ \E t \in Closers : CloseSetErr(t)
    \/ \E t \in Closers : CloseCancel(t)
    \/ \E t \in Closers : CloseMsgCh(t)
    \/ \E t \in Closers : CloseClientConn(t)
    \/ \E t \in Closers : CloseConnDecr(t)

(***************************************************************************)
(* One MsgBatch: taken from the pool, filled by AddMsg, emptied by Reset   *)
(* and given back by PutMsgBatchs.  The messages are 1, 2, ...; a nil      *)
(* entry of msgs is 0.                                                     *)
(***************************************************************************)
\* msgBatchPool.New: msgs: make([]*Message, defaultMsgBatchSize)
PoolNew == [msgs |-> [i \in 1..defaultMsgBatchSize |-> 0], count |-> 0]

\* NewMsgBatch: msgBatchPool.Get gives a batch put back before, as it was
\* put back, or a new one
BatchGet ==
    /\ UNCHANGED notBatchVars
    /\ btpc = "pool"
    /\ btFrames < MaxBatchFrames
    /\ \E from \in {"new"} \cup (IF btFrames > 0 THEN {"recycled"} ELSE {}) :
        /\ bt' = IF from = "new" THEN PoolNew ELSE bt
        /\ btFrom' = from
    /\ btpc' = "held"
    /\ btFrames' = btFrames + 1
    /\ UNCHANGED <<btAdded, btOld, btNext>>

AppendAlways(b) == TRUE

\* MsgBatch.AddMsg: if len(m.msgs) <= m.count
NeedsAppend(b) == Len(b.msgs) <= b.count

\* MsgBatch.AddMsg
BatchAddMsg ==
    /\ UNCHANGED notBatchVars
    /\ btpc = "held"
    /\ Len(btAdded) < MaxBatchAdds
    /\ bt' = [msgs  |-> IF NeedsAppend(bt) THEN Append(bt.msgs, btNext)
                        ELSE [bt.msgs EXCEPT ![bt.count + 1] = btNext],
              count |-> bt.count + 1]
    /\ btAdded' = Append(btAdded, btNext)
    /\ btNext' = btNext + 1
    /\ UNCHANGED <<btpc, btOld, btFrames, btFrom>>

\* MsgBatch.Reset: m.count = 0 (and m.buf.Reset())
BatchReset ==
    /\ UNCHANGED notBatchVars
    /\ btpc = "held"
    /\ btFrames < MaxBatchFrames
    /\ bt' = [bt EXCEPT !.count = 0]
    /\ btOld' = btOld \cup {btAdded[i] : i \in 1..Len(btAdded)}
    /\ btAdded' = <<>>
    /\ btFrames' = btFrames + 1
    /\ UNCHANGED <<btpc, btNext, btFrom>>

\* PutMsgBatchs, for one batch: mb.msgs = nil; mb.count = 0; Put
BatchPut ==
    /\ UNCHANGED notBatchVars
    /\ btpc = "held"
    /\ bt' = [msgs |-> <<>>, count |-> 0]
    /\ btOld' = btOld \cup {btAdded[i] : i \in 1..Len(btAdded)}
    /\ btAdded' = <<>>
    /\ btpc' = "pool"
    /\ UNCHANGED <<btNext, btFrames, btFrom>>

\* MsgBatch.Count
BatchCount(b) == b.count

\* MsgBatch.Msgs: m.msgs[:m.count]
BatchMsgs(b) == SubSeq(b.msgs, 1, b.count)

\* MsgBatch.Nth, with i counted from 0
BatchNth(b, i) == IF i < b.count THEN b.msgs[i + 1] ELSE 0

InitBatchVars ==
    /\ bt = PoolNew
    /\ btpc = "pool"
    /\ btAdded = <<>>
    /\ btOld = {}
    /\ btNext = 1
    /\ btFrames = 0
    /\ btFrom = "new"

ParkBatch ==
    /\ bt = <<>> /\ btpc = "parked" /\ btAdded = <<>> /\ btOld = {}
    /\ btNext = 0 /\ btFrames = 0 /\ btFrom = "new"

NextBatch ==
    \/ BatchGet
    \/ BatchAddMsg
    \/ BatchReset
    \/ BatchPut

(***************************************************************************)
(* The specifications.                                                     *)
(***************************************************************************)
InitNode == InitNodeVars /\ ParkHandler /\ ParkClose /\ ParkPing /\ ParkMc /\ ParkWriter /\ ParkSlots /\ ParkMerge /\ ParkSplit /\ ParkHealth /\ ParkPinger /\ ParkSlab /\ ParkLend /\ ParkHclose /\ ParkBatch
SpecNode == InitNode /\ [][NextNode]_vars

\* the worker's task keeps running its ReadBatch: every turn of the loop is
\* taken, a socket read returning under the connection's read timeout
FairNode == WF_vars(ReadBatchStep) /\ WF_vars(ReadBatchEnd)
SpecNodeFair == InitNode /\ [][NextNode]_vars /\ FairNode

InitHandler == InitHandlerVars /\ ParkNode /\ ParkClose /\ ParkPing /\ ParkMc /\ ParkWriter /\ ParkSlots /\ ParkMerge /\ ParkSplit /\ ParkHealth /\ ParkPinger /\ ParkSlab /\ ParkLend /\ ParkHclose /\ ParkBatch
SpecHandler == InitHandler /\ [][NextHandler]_vars

\* the scheduler runs every worker that has a batch and the handler's own
\* task; a worker's WriteBatch and ReadBatch return, their socket calls
\* being under the connection's timeouts
FairHandler ==
    /\ \A n \in Nodes : WF_vars(WorkerIO(n)) /\ WF_vars(WorkerDone(n))
    /\ WF_vars(Wait)
SpecHandlerFair == InitHandler /\ [][NextHandler]_vars /\ FairHandler

InitClose == InitCloseVars /\ ParkNode /\ ParkHandler /\ ParkPing /\ ParkMc /\ ParkWriter /\ ParkSlots /\ ParkMerge /\ ParkSplit /\ ParkHealth /\ ParkPinger /\ ParkSlab /\ ParkLend /\ ParkHclose /\ ParkBatch
SpecClose == InitClose /\ [][NextClose]_vars

InitPing == InitPingVars /\ ParkNode /\ ParkHandler /\ ParkClose /\ ParkMc /\ ParkWriter /\ ParkSlots /\ ParkMerge /\ ParkSplit /\ ParkHealth /\ ParkPinger /\ ParkSlab /\ ParkLend /\ ParkHclose /\ ParkBatch
SpecPing == InitPing /\ [][NextPing]_vars

InitMc == InitMcVars /\ ParkNode /\ ParkHandler /\ ParkClose /\ ParkPing /\ ParkWriter /\ ParkSlots /\ ParkMerge /\ ParkSplit /\ ParkHealth /\ ParkPinger /\ ParkSlab /\ ParkLend /\ ParkHclose /\ ParkBatch
SpecMc == InitMc /\ [][NextMc]_vars

InitWriter == InitWriterVars /\ ParkNode /\ ParkHandler /\ ParkClose /\ ParkPing /\ ParkMc /\ ParkSlots /\ ParkMerge /\ ParkSplit /\ ParkHealth /\ ParkPinger /\ ParkSlab /\ ParkLend /\ ParkHclose /\ ParkBatch
SpecWriter == InitWriter /\ [][NextWriter]_vars

InitSlots == InitSlotVars /\ ParkNode /\ ParkHandler /\ ParkClose /\ ParkPing /\ ParkMc /\ ParkWriter /\ ParkMerge /\ ParkSplit /\ ParkHealth /\ ParkPinger /\ ParkSlab /\ ParkLend /\ ParkHclose /\ ParkBatch
SpecSlots == InitSlots /\ [][NextSlots]_vars

InitMerge == InitMergeVars /\ ParkNode /\ ParkHandler /\ ParkClose /\ ParkPing /\ ParkMc /\ ParkWriter /\ ParkSlots /\ ParkSplit /\ ParkHealth /\ ParkPinger /\ ParkSlab /\ ParkLend /\ ParkHclose /\ ParkBatch
SpecMerge == InitMerge /\ [][NextMerge]_vars

InitSplit == InitSplitVars /\ ParkNode /\ ParkHandler /\ ParkClose /\ ParkPing /\ ParkMc /\ ParkWriter /\ ParkSlots /\ ParkMerge /\ ParkHealth /\ ParkPinger /\ ParkSlab /\ ParkLend /\ ParkHclose /\ ParkBatch
SpecSplit == InitSplit /\ [][NextSplit]_vars

InitHealth == InitHealthVars /\ ParkNode /\ ParkHandler /\ ParkClose /\ ParkPing /\ ParkMc /\ ParkWriter /\ ParkSlots /\ ParkMerge /\ ParkSplit /\ ParkPinger /\ ParkSlab /\ ParkLend /\ ParkHclose /\ ParkBatch
SpecHealth == InitHealth /\ [][NextHealth]_vars

InitPinger == InitPingerVars /\ ParkNode /\ ParkHandler /\ ParkClose /\ ParkPing /\ ParkMc /\ ParkWriter /\ ParkSlots /\ ParkMerge /\ ParkSplit /\ ParkHealth /\ ParkSlab /\ ParkLend /\ ParkHclose /\ ParkBatch
SpecPinger == InitPinger /\ [][NextPinger]_vars

InitSlab == InitSlabVars /\ ParkNode /\ ParkHandler /\ ParkClose /\ ParkPing /\ ParkMc /\ ParkWriter /\ ParkSlots /\ ParkMerge /\ ParkSplit /\ ParkHealth /\ ParkPinger /\ ParkLend /\ ParkHclose /\ ParkBatch
SpecSlab == InitSlab /\ [][NextSlab]_vars

InitLend == InitLendVars /\ ParkNode /\ ParkHandler /\ ParkClose /\ ParkPing /\ ParkMc /\ ParkWriter /\ ParkSlots /\ ParkMerge /\ ParkSplit /\ ParkHealth /\ ParkPinger /\ ParkSlab /\ ParkHclose /\ ParkBatch
SpecLend == InitLend /\ [][NextLend]_vars

InitHclose == InitHcloseVars /\ ParkNode /\ ParkHandler /\ ParkClose /\ ParkPing /\ ParkMc /\ ParkWriter /\ ParkSlots /\ ParkMerge /\ ParkSplit /\ ParkHealth /\ ParkPinger /\ ParkSlab /\ ParkLend /\ ParkBatch
SpecHclose == InitHclose /\ [][NextHclose]_vars

InitBatch == InitBatchVars /\ ParkNode /\ ParkHandler /\ ParkClose /\ ParkPing /\ ParkMc /\ ParkWriter /\ ParkSlots /\ ParkMerge /\ ParkSplit /\ ParkHealth /\ ParkPinger /\ ParkSlab /\ ParkLend /\ ParkHclose
SpecBatch == InitBatch /\ [][NextBatch]_vars

(***************************************************************************)
(* Properties of the node connection and of the batch completion.          *)
(***************************************************************************)
\* the indices of the batch's messages that are neither unsupported nor control
Forwarded == {i \in 1..Len(mb) : mb[i].kind \notin {"unsup", "ctl"}}

RECURSIVE SlicesOf(_, _)
SlicesOf(i, n) ==
    IF i > n THEN <<>>
    ELSE (IF i \in Forwarded THEN ReqSlices(i) ELSE <<>>) \o SlicesOf(i + 1, n)

\* the socket I/O the operation in progress has issued
IoOfOp == sockWrites + hist.reads - hist.base

\* the slices of message i that the Writer or the socket holds
HeldOf(i) == {k \in 1..SlicesPerReq :
                 \/ \E x \in 1..Len(sockOut) : sockOut[x] = <<i, k>>
                 \/ \E x \in 1..Len(bw.bufs) : bw.bufs[x] = <<i, k>>}

\* C3: a message's error slot is set at most once in a frame; a message that
\* WriteBatch marked failed is not marked again by BatchDoneWithError.
C3_ErrorSetOnce ==
    \A i \in 1..Len(mb) : mb[i].sets <= 1

\* C7: an operation begun after Close returned returns the closed error and
\* issues no socket I/O.
C7_ClosedOpsReturnClosed ==
    (pc \in {"wret", "rret"} /\ hist.startedClosed)
        => (ret = ErrClosed /\ IoOfOp = 0)

\* C8: when WriteBatch returns no error, the socket holds exactly the
\* requests of the messages that are neither unsupported nor control, in
\* batch order, exactly those messages are marked written, and the vector
\* is flushed.
C8_WriteBatchWritesForwarded ==
    (pc = "wret" /\ ret = Nil)
        => /\ sockOut = SlicesOf(1, Len(mb))
           /\ \A i \in 1..Len(mb) : mb[i].written <=> i \in Forwarded
           /\ hist.written = SelectSeq([i \in 1..Len(mb) |-> i],
                                       LAMBDA i : i \in Forwarded)
           /\ bw.bufs = <<>>

C8_Witness ==
    /\ pc = "wret" /\ ret = Nil
    /\ sockWrites >= 2
    /\ \E i, j, k \in 1..Len(mb) :
         /\ i < j /\ j < k
         /\ mb[i].written /\ mb[j].kind = "ctl" /\ mb[k].written

\* C9: when WriteBatch returns an error, the offending message is marked
\* failed with it, and no later message is encoded or marked written.
C9_WriteBatchErrorMarksOffender ==
    (pc = "wret" /\ ret # Nil)
        => \E i \in 1..Len(mb) :
             /\ mb[i].err = ret
             /\ \A j \in (i + 1)..Len(mb) : ~mb[j].written /\ HeldOf(j) = {}

\* the j-th reply the backend sent on the connection
NthReply(j) == SubSeq(RepliesFor(sockOut), (j - 1) * ReplyLen + 1, j * ReplyLen)

\* the position of message i among the forwarded messages of the batch
Rank(i) == Cardinality({j \in Forwarded : j <= i})

\* C10: the j-th reply decoded from the connection is stored in the j-th
\* not-skipped message, only that message is marked read for it, and a
\* skipped message consumes no reply, however the reply bytes are split
\* across socket reads.
C10_ReadBatchPositional ==
    (pc \in {"read", "rret"})
        => /\ \A i \in 1..Len(mb) :
                IF i \in Forwarded
                THEN mb[i].read => mb[i].reply = NthReply(Rank(i))
                ELSE ~mb[i].read /\ mb[i].reply = <<>>
           /\ Cardinality({i \in 1..Len(mb) : mb[i].read}) = hist.decoded
           /\ (pc = "rret" /\ ret = Nil) => \A i \in Forwarded : mb[i].read

C10_Witness ==
    /\ pc = "rret" /\ ret = Nil
    /\ hist.reads >= 3
    /\ \E i, j, k \in 1..Len(mb) :
         /\ i < j /\ j < k
         /\ mb[i].read /\ mb[j].kind = "unsup" /\ mb[k].read

\* C11: when the decode of reply i is incomplete, the retry after the socket
\* read starts at the first byte of reply i, the mark saved after reply i-1:
\* between loop rounds the read position is the saved mark, which lies right
\* after the replies decoded so far; the index counts exactly the messages
\* passed; and the bytes read from the socket are kept in order.
C11_RetryAtCurrentReply ==
    (pc = "read")
        => /\ mbBuf.r = rb.now
           /\ rb.now = ReplyLen * hist.decoded
           /\ rb.begin = 0
           /\ hist.decoded = Cardinality({j \in Forwarded : j <= rb.i})
           /\ mbBuf.data \o wire = RepliesFor(sockOut)

C11_Witness ==
    /\ pc = "read"
    /\ hist.reads >= 2
    /\ hist.decoded >= 1
    /\ mbBuf.r = rb.now
    /\ Len(mbBuf.data) - mbBuf.r \in 1..(ReplyLen - 1)

(***************************************************************************)
(* Properties of the handler's frame cycle.                                *)
(***************************************************************************)
\* the response the client is owed for the k-th request of the frame
Owed(k) ==
    [req |-> k,
     body |-> IF hhist.outcome[msgs[k].node] = "failed"
              THEN <<"error", ErrIO>> ELSE <<"reply", k>>]

\* C1: in every cycle the responses encoded so far are those of the first
\* requests of the frame, in the client's order, and once the encode loop
\* has ended and the frame is flushed there are exactly m of them, whatever
\* order the batches completed in.
C1_OrderPreserved ==
    /\ hpc \in {"encode", "flush"}
          => /\ Len(cw) = (IF hpc = "flush" THEN Len(msgs) ELSE ei - 1)
             /\ \A k \in 1..Len(cw) : cw[k] = Owed(k)
    /\ hpc = "release"
          => /\ Len(sent) = Len(msgs)
             /\ \A k \in 1..Len(sent) : sent[k] = Owed(k)

C1_Witness ==
    /\ hpc = "release"
    /\ Len(msgs) = 3
    /\ msgs[1].node = 1 /\ msgs[2].node = 2 /\ msgs[3].node = 1
    /\ hhist.doneOrder = <<2, 1>>
    /\ hhist.outcome[2] = "failed" /\ hhist.outcome[1] = "ok"

\* C2: once a Wait of the frame has returned, and so whenever a response of
\* the frame is encoded, every batch dispatched for the frame has counted
\* the latch down.
C2_EncodeAfterAllBatchesDone ==
    ((hpc = "wait" /\ wj > 1) \/ hpc \in {"encode", "flush", "release"}
        \/ (hpc # "parked" /\ cw # <<>>))
        => \A n \in Nodes : mbatch[n].st \in {"idle", "done"}

C2_Witness ==
    /\ hpc = "wait" /\ wj = 2
    /\ mbatch[1].st = "done" /\ mbatch[2].st = "done"
    /\ hhist.doneOrder = <<2, 1>>

\* C16: when Decode, Encode or the client Flush fails, the loop stops and
\* starts no other cycle, the client socket is closed, and the current
\* message slots and the batches go back to their pool exactly once;
\* before that none of this has happened.
C16_FatalErrorStopsAndReleases ==
    (hpc # "parked")
        => /\ (herr # Nil) <=> (hpc = "closed")
           /\ IF hpc = "closed"
              THEN /\ herr \in {"ErrDecode", "ErrEncode", "ErrFlush"}
                   /\ hres = [closed |-> handlerClosed, closes |-> 1,
                              msgPuts |-> 1, mbPuts |-> 1]
                   /\ msgs = <<>>
                   /\ \A n \in Nodes : mbatch[n].list = <<>>
              ELSE hres = [closed |-> handlerOpening, closes |-> 0,
                           msgPuts |-> 0, mbPuts |-> 0]

C16_Witness ==
    /\ hpc = "closed"
    /\ herr = "ErrEncode"
    /\ messages = 2 * defaultConcurrent
    /\ hres.closes = 1 /\ hres.msgPuts = 1 /\ hres.mbPuts = 1

\* C17: a backend failure on one batch fails exactly the messages of that
\* batch: every message of a batch that ended with an error carries the
\* error, the messages of every other batch carry none and keep their
\* replies, and every batch that ended has counted the latch down once.
C17_FailureStaysInBatch ==
    (hpc \in {"wait", "encode", "flush", "release"})
        => /\ \A i \in 1..Len(msgs) :
                LET n == msgs[i].node
                IN  /\ (msgs[i].err # Nil)
                         <=> (mbatch[n].st = "done" /\ hhist.outcome[n] = "failed")
                    /\ msgs[i].err \in {Nil, ErrIO}
                    /\ (hhist.outcome[n] = "ok") => msgs[i].resp = <<"reply", i>>
           /\ \A l \in DOMAIN wg :
                wg[l] = Cardinality({n \in Nodes :
                            mbatch[n].wg = l
                            /\ mbatch[n].st \in {"queued", "ok", "failed"}})

C17_Witness ==
    /\ hpc = "encode"
    /\ \E n, o \in Nodes :
         /\ hhist.outcome[n] = "failed" /\ hhist.outcome[o] = "ok"
         /\ \E i, j \in 1..Len(msgs) :
              /\ msgs[i].node = n /\ msgs[i].err = ErrIO
              /\ msgs[j].node = o /\ msgs[j].err = Nil
                 /\ msgs[j].resp = <<"reply", j>>

(***************************************************************************)
(* Properties of Close.                                                    *)
(***************************************************************************)
\* the tasks whose last Close call has returned
Returned == {t \in Closers : cpc[t] = "idle" /\ ccalls[t] > 0}

\* C6: the connection starts open and, once closed, stays closed; under any
\* sequential or concurrent Close calls the socket is closed at most once,
\* exactly once when the call that won the swap has returned, and every
\* other call returns nil.
C6_CloseOnce ==
    (cpc # <<>>) =>
        /\ closed \in {handlerOpening, handlerClosed}
        /\ (\A t \in Closers : ccalls[t] = 0) => closed = handlerOpening
        /\ chist.wasClosed => closed = handlerClosed
        /\ connCloses <= 1
        /\ \A t \in Returned :
             IF t \in chist.won THEN connCloses = 1 ELSE cret[t] = Nil
        /\ Cardinality({t \in Closers : cpc[t] # "idle"} \cup chist.won) <= 1
        /\ (Returned = Closers) => connCloses = 1

C6_Witness ==
    /\ cpc # <<>>
    /\ ncKind = "memcache"
    /\ Returned = Closers
    /\ connCloses = 1
    /\ \E t \in chist.won :
         /\ cret[t] = ErrIO
         /\ \A u \in Closers \ {t} : ccalls[u] = MaxCloseCalls /\ cret[u] = Nil

\* C31: in every interleaving of Ping and Close on a Memcached node
\* connection, a Ping call that got past the closed check runs on the
\* pinger of the connection, live or already closed, and returns what it
\* gives; it never runs on the reference Close has cleared.
C31_PingNeverUsesClearedPinger ==
    (ncKind = "memcache" /\ cpc # <<>>)
        => /\ "nil" \notin pingRefs
           /\ pingPc # "panic"
           /\ (pingPc = "idle" /\ pingCalls > 0 /\ "live" \notin pingRefs)
                  => pingRet # Nil

(***************************************************************************)
(* Properties of Ping against the batch operations.                        *)
(***************************************************************************)
\* the requests among the frames written to the socket, in order
RECURSIVE RequestsOf(_)
RequestsOf(fs) ==
    IF fs = <<>> THEN <<>>
    ELSE IF Head(fs) = PingFrame THEN RequestsOf(Tail(fs))
    ELSE <<Head(fs)>> \o RequestsOf(Tail(fs))

\* C5: in every interleaving of the health task and the traffic task on one
\* node connection, Ping never runs while WriteBatch/ReadBatch runs: no ping
\* frame lies between two requests of one batch on the socket, the replies
\* ReadBatch reads are those of its requests, in order, and the pinger reads
\* only replies to pings.
C5_PingNeverOverlapsBatch ==
    (tpc # "parked") =>
        /\ ~(tpc \in {"write", "read"} /\ ppc \in {"write", "read"})
        /\ \A i \in 1..Len(psock) : \A k \in 1..Len(psock) :
             (/\ i < k
              /\ psock[i] # PingFrame /\ psock[k] # PingFrame
              /\ psock[i][2] = psock[k][2])
             => \A j \in i..k : psock[j] # PingFrame
        /\ Len(phist.trafficGot) <= Len(RequestsOf(psock))
        /\ \A n \in 1..Len(phist.trafficGot) :
             phist.trafficGot[n] = ReplyOf(RequestsOf(psock)[n])
        /\ \A n \in 1..Len(phist.pingGot) : phist.pingGot[n] = Pong

C5_Witness ==
    /\ tpc = "idle" /\ ppc = "idle"
    /\ tround = MaxRounds /\ pings = MaxPings
    /\ Len(phist.trafficGot) = MaxRounds * PingBatch
    /\ Len(phist.pingGot) = MaxPings
    /\ psock[1] # PingFrame
    /\ psock[PingBatch + 1] = PingFrame
    /\ psock[Len(psock)] # PingFrame

(***************************************************************************)
(* Properties of the buffer pool.                                          *)
(***************************************************************************)
\* C4: no buffer is in the pool while a message that is not yet encoded and
\* flushed to the client references it; rebinding the Reader for the next
\* message never puts the buffer of an earlier, pending message into the pool.
C4_NoPendingBufferInPool ==
    (mcpc \notin {"parked", "new"}) =>
        \A k \in McIds :
            mcMsgs[k].st \in {"pending", "read"} => mcMsgs[k].buf \notin pool

(***************************************************************************)
(* Properties of the Writer.                                               *)
(***************************************************************************)
\* C12: once a socket write of the Writer has failed, in a Flush or in the
\* flush that Write triggers on a full vector, every later Write and Flush
\* returns that error and nothing more reaches the socket.
C12_WriterErrorSticky ==
    (wops > 0 /\ wh.sockErr # Nil)
        => /\ wtr.err = wh.sockErr
           /\ (wh.after # {})
                => /\ wtr.ret = wh.sockErr
                   /\ wtr.n = wh.before.n
                   /\ wtr.out = wh.before.out
                   /\ wh.before.err = wh.sockErr

C12_Witness ==
    /\ wops > 0
    /\ wh.failedBy = "write"
    /\ wh.after = {"write", "flush"}
    /\ wtr.ret = ErrIO

\* whether sequence a is the beginning of sequence b
IsPrefix(a, b) == Len(a) <= Len(b) /\ SubSeq(b, 1, Len(a)) = a

\* each call issues at most one socket write, a scatter-gather write of the
\* whole vector in write order, and the vector is empty after that write,
\* also when it fails; the slices Write accepted are sent or still queued
OneWritePerFlush ==
    LET b == wh.before
    IN  /\ wtr.n <= b.n + 1
        /\ (wtr.n = b.n) => wtr.out = b.out
        /\ (wtr.n = b.n + 1)
             => /\ b.err = Nil /\ b.bufs # <<>>
                /\ wtr.out = b.out \o b.bufs \/ wtr.out = b.out
                /\ wtr.bufs = IF wh.op = "write" THEN <<wh.p>> ELSE <<>>
        /\ (wh.op = "flush" /\ b.err = Nil)
             => wtr.bufs = <<>> /\ (b.bufs # <<>> => wtr.n = b.n + 1)
        /\ IsPrefix(wtr.out, wh.took)
        /\ (wtr.err = Nil) => wtr.out \o wtr.bufs = wh.took

C15_DoubleExactlyWhenFull ==
    (slotCap > 0 /\ slotFrames > 0)
        => IF slotHist.lastCount = slotHist.lm /\ slotHist.lm < slotCap
           THEN /\ slots = 2 * slotHist.lm
                /\ slotGen # slotHist.gen
                /\ slotPool = slotHist.pool \cup {slotHist.gen}
           ELSE /\ slots = slotHist.lm
                /\ slotGen = slotHist.gen
                /\ slotPool = slotHist.pool

C15_Witness ==
    /\ slotFrames = 3
    /\ slotGen = 1
    /\ slots = 4 /\ slotCap = 4
    /\ slotHist.lastCount = slotHist.lm
    /\ slotPool = {0}

(***************************************************************************)
(* Properties of the Redis merge.                                          *)
(***************************************************************************)
\* the sub-requests whose reply is the integer reply :1, of replies :0 and :1
Ones == {i \in 1..Len(subs) : subs[i].reply.obj = newRespPlain(respInt, "1")}

AllIntegers == \A i \in 1..Len(subs) : subs[i].reply.obj.rtype = respInt

\* C18: with merge rule count, the merged response is an integer reply
\* whose value is the sum of the integer replies of the sub-requests.
C18_CountSumsIntegers ==
    (mgpc = "merged" /\ mergeType = "count" /\ AllIntegers)
        => /\ ~rr.panic
           /\ rr.respObj = newRespPlain(respInt, Itoa(Cardinality(Ones)))

\* C19: with merge rule basic, the merged response is the response of the
\* first sub-request whenever that one is a Redis response.
C19_BasicPassesThrough ==
    (mgpc = "merged" /\ mergeType = "basic" /\ subs[1].reply.proto)
        => /\ ~rr.panic
           /\ rr.respObj = subs[1].reply.obj

\* C20: with merge rule join, the merged response is an array with one
\* element per sub-request, the i-th being the response of the i-th
\* sub-request (nil where that one has no Redis response), in whatever
\* order the backends answered.
C20_JoinKeepsKeyOrder ==
    (mgpc = "merged" /\ mergeType = "join")
        => /\ ~rr.panic
           /\ rr.respObj.rtype = respArray
           /\ Len(rr.respObj.array) = Len(subs)
           /\ \A i \in 1..Len(subs) :
                rr.respObj.array[i] =
                    IF subs[i].reply.proto THEN subs[i].reply.obj ELSE NilResp

C20_Witness ==
    /\ mgpc = "merged" /\ mergeType = "join"
    /\ arrival = <<3, 1, 2>>
    /\ \A i \in 1..Len(subs) : subs[i].reply.proto
    /\ rr.respObj.array[1] = newRespPlain(respInt, "1")
    /\ rr.respObj.array[2] = newRespPlain(respBulk, "v")
    /\ rr.respObj.array[3] = newRespPlain(respInt, "0")

\* the sub-requests that ended with an error
Errored == {i \in 1..Len(subs) : subs[i].reply.err # Nil}

\* C21: with merge rule ok, the merged response is the response of the first
\* sub-request, in sub-request order, that has an error, and it is the
\* simple string OK exactly when no sub-request has an error.
C21_OkReturnsFirstError ==
    (mgpc = "merged" /\ mergeType = "ok")
        => /\ ~rr.panic
           /\ (rr.respObj = newRespString("OK")) <=> (Errored = {})
           /\ (Errored # {})
                => LET first == CHOOSE i \in Errored : \A j \in Errored : i <= j
                   IN  rr.respObj = subs[first].reply.obj

(***************************************************************************)
(* Properties of the Redis split.                                          *)
(***************************************************************************)
\* C22: the split of a request with batch step N and arguments a_1..a_n
\* yields sub-requests that each carry the per-key command and N consecutive
\* arguments, are not batchable themselves, and whose arguments, put end to
\* end, are a_1..a_n: nothing is dropped or duplicated.
C22_SplitCoversEveryArgument ==
    (spc = "split" /\ IsBatch(sreq))
        => /\ \A i \in 1..Len(ssubs) :
                /\ ssubs[i].cmd = getBatchCmd(sreq.cmd)
                /\ Len(ssubs[i].args) = getBatchStep(sreq.cmd)
                /\ ssubs[i].batchStep = defaultBatchStep
           /\ Flatten([i \in 1..Len(ssubs) |-> ssubs[i].args]) = sreq.args

(***************************************************************************)
(* Properties of the health loop.                                          *)
(***************************************************************************)
\* the number of failures at the end of a log of ping results
RECURSIVE TrailingFails(_)
TrailingFails(log) ==
    IF log = <<>> \/ log[Len(log)] THEN 0
    ELSE 1 + TrailingFails(SubSeq(log, 1, Len(log) - 1))

\* C23: a backend with ping_auto_eject is out of the ring exactly while its
\* last ping_fail_limit pings or more have all failed, so it leaves the ring
\* at the failure that makes ping_fail_limit in a row and not before; a
\* success sets the count to zero; without ping_auto_eject it never leaves.
C23_EjectAtLimitOnly ==
    (failLimit > 0)
        => /\ fails = TrailingFails(hlog)
           /\ inRing <=> ~(autoEject /\ TrailingFails(hlog) >= failLimit)

C23_Witness ==
    /\ failLimit = 3 /\ autoEject
    /\ hlog = <<FALSE, FALSE, TRUE, FALSE, FALSE, FALSE>>
    /\ ~inRing
    /\ fails = 3

(***************************************************************************)
(* Properties of the pinger.                                               *)
(***************************************************************************)
\* the complete lines of a run of bytes, in order
RECURSIVE LinesOf(_)
LinesOf(b) ==
    IF \A i \in 1..Len(b) : b[i] # "\n" THEN <<>>
    ELSE LET e == CHOOSE i \in 1..Len(b) :
                      b[i] = "\n" /\ \A j \in 1..(i - 1) : b[j] # "\n"
         IN  <<SubSeq(b, 1, e)>> \o LinesOf(SubSeq(b, e + 1, Len(b)))

\* the calls of Ping made before any Close, in order
OpenPings ==
    LET firstClose ==
            IF \E i \in 1..Len(pgHist) : pgHist[i].op = "Close"
            THEN CHOOSE i \in 1..Len(pgHist) :
                     pgHist[i].op = "Close"
                     /\ \A j \in 1..(i - 1) : pgHist[j].op # "Close"
            ELSE Len(pgHist) + 1
    IN  SubSeq(pgHist, 1, firstClose - 1)

\* C24: every Ping on an open pinger sends one frame, and the k-th of them
\* gets the k-th complete reply of the connection: it succeeds when that
\* reply is the pong, returns ErrPingerPong when it is another line, and
\* returns an error when the connection has no k-th reply; so over exactly
\* N pongs the first N Pings succeed and the next one fails.
C24_PingTakesOneReply ==
    /\ pgSent = Len(OpenPings)
    /\ \A k \in 1..Len(OpenPings) :
           IF k <= Len(LinesOf(connBytes))
           THEN OpenPings[k].ret =
                    IF LinesOf(connBytes)[k] = pongBytes THEN Nil ELSE ErrPingerPong
           ELSE OpenPings[k].ret = ErrBufferFull

C24_Witness ==
    /\ connBytes = pongBytes \o pongBytes
    /\ Len(pgHist) = 3
    /\ pgHist[1] = [op |-> "Ping", ret |-> Nil]
    /\ pgHist[2] = [op |-> "Ping", ret |-> Nil]
    /\ pgHist[3] = [op |-> "Ping", ret |-> ErrBufferFull]
    /\ pgSent = 3
    /\ pgUnread = <<>>

\* C25: every Close of a pinger returns no error, the first and the later
\* ones, and every Ping after a Close returns an error, whatever replies the
\* connection still holds.
C25_ClosedPingerFails ==
    \A i \in 1..Len(pgHist) :
        /\ pgHist[i].op = "Close" => pgHist[i].ret = Nil
        /\ (pgHist[i].op = "Ping" /\ \E j \in 1..(i - 1) : pgHist[j].op = "Close")
               => pgHist[i].ret # Nil

C25_Witness ==
    /\ connBytes = pongBytes \o pongBytes
    /\ Len(pgHist) = 4
    /\ pgHist[1] = [op |-> "Ping", ret |-> Nil]
    /\ pgHist[2] = [op |-> "Close", ret |-> Nil]
    /\ pgHist[3].op = "Ping" /\ pgHist[3].ret # Nil
    /\ pgHist[4] = [op |-> "Close", ret |-> Nil]
    /\ pgUnread = pongBytes

(***************************************************************************)
(* Properties of the slab Reader.                                          *)
(***************************************************************************)
\* the bytes the calls so far returned, in call order
SlabReturned == Flatten([i \in 1..Len(slHist) |-> slHist[i].data])

\* C26: while no call of the slab Reader has returned an error, the bytes
\* the calls returned, joined in call order, are a prefix of the source
\* stream.
C26_ReturnedIsStreamPrefix ==
    (\A i \in 1..Len(slHist) : slHist[i].err = Nil)
        => IsPrefix(SlabReturned, Stream)

\* the source returned an error in this step
SourceFailed == rdErrs' # rdErrs

\* a call returned in this step
CallReturned == Len(slHist') = Len(slHist) + 1

\* C33: a call of the slab Reader returns when the source returns an error,
\* io.EOF or another: the step in which the source fails ends the call with
\* an error, so ReadBytes and ReadSlice do not call the source again; and a
\* ReadBytes or ReadSlice that returns no error returns data that ends in
\* the delimiter.
C33_CallReturnsOnSourceError ==
    [][/\ SourceFailed =>
            /\ CallReturned
            /\ slCall'.op = "idle"
            /\ slHist'[Len(slHist')].err # Nil
       /\ (slCall.op # "idle" /\ CallReturned
             /\ slHist'[Len(slHist')].err = Nil) =>
            LET data == slHist'[Len(slHist')].data
            IN  data # <<>> /\ data[Len(data)] = slCall.delim]_vars

\* the indices of a Reader are in order and inside its buffer
IndicesOrdered(r) ==
    /\ 0 <= r.free /\ r.free <= r.readed
    /\ r.readed <= r.acquired /\ r.acquired <= Len(r.buf)

\* the bytes fetched from the source so far
Fetched == {Stream[i] : i \in 1..(SrcLen - Len(rd))}

\* every byte of buf[readed:acquired] was fetched and not yet returned
UnreadIsPending ==
    \A i \in (slab.readed + 1)..slab.acquired :
        /\ slab.buf[i] \in Fetched
        /\ \A k \in 1..Len(SlabReturned) : SlabReturned[k] # slab.buf[i]

\* r2, made from r by grow or shrink, holds the content of buf[free:acquired]
\* of r, with readed at the same place in it
KeepsContent(r, r2) ==
    /\ SubSeq(r2.buf, r2.free + 1, r2.acquired) = SubSeq(r.buf, r.free + 1, r.acquired)
    /\ r2.readed - r2.free = r.readed - r.free

\* C34: after any sequence of calls of the slab Reader the indices satisfy
\* 0 <= free <= readed <= acquired <= len(buf), every byte of
\* buf[readed:acquired] is a byte fetched from the source and not returned
\* yet, and grow and shrink keep the content of buf[free:acquired].
C34_IndicesAndUnreadBytes ==
    (rdErrs # <<>>) =>
        /\ IndicesOrdered(slab)
        /\ slCall.op = "idle" => UnreadIsPending
        /\ KeepsContent(slab, slabGrow(slab))
        /\ KeepsContent(slab, shrink(slab))

Outstanding == {n \in Nodes : mbatch[n].st \in {"queued", "ok", "failed"}}

\* every batch counted down so far was counted once, was registered, and
\* went through BatchDoneWithError exactly when its worker failed
CountedOnce ==
    /\ \A j, k \in 1..Len(hhist.doneOrder) :
           hhist.doneOrder[j] = hhist.doneOrder[k] => j = k
    /\ \A n \in Nodes :
           (mbatch[n].st = "done") <=> (\E k \in 1..Len(hhist.doneOrder) :
                                            hhist.doneOrder[k] = n)
    /\ \A n \in Nodes :
           mbatch[n].st = "done"
               => /\ mbatch[n].list # <<>>
                  /\ \A i \in Msgs(mbatch[n]) :
                         (msgs[i].err # Nil) <=> (hhist.outcome[n] = "failed")

\* C28: the latch always counts the registered batches not yet counted
\* down, each batch is counted down once, by BatchDone or by
\* BatchDoneWithError, so the latch is never negative; and with the workers
\* scheduled fairly every wait of the handler returns.
C28_LatchCountedOnceWaitReturns ==
    /\ [](hpc \in {"wait", "encode", "flush", "release"}
              => /\ \A l \in DOMAIN wg : wg[l] >= 0
                 /\ wg[1] = Cardinality(Outstanding)
                 /\ CountedOnce)
    /\ (hpc = "wait") ~> (hpc = "encode")

C28_Witness ==
    /\ hpc = "encode"
    /\ wg[1] = 0
    /\ hhist.doneOrder = <<2, 1>>
    /\ hhist.outcome[1] = "failed" /\ hhist.outcome[2] = "ok"

(***************************************************************************)
(* Termination of ReadBatch.                                               *)
(***************************************************************************)
\* what ReadBatch has done when it returns
ReadBatchOutcome ==
    (pc = "rret")
        => /\ ret = Nil => \A i \in Forwarded :
                               mb[i].read /\ mb[i].reply = NthReply(Rank(i))
           /\ ret # Nil => \A i \in 1..Len(mb) :
                               mb[i].read <=> (i \in Forwarded /\ Rank(i) <= hist.decoded)
           /\ \A i \in 1..Len(mb) : mb[i].read => mb[i].reply = NthReply(Rank(i))

\* ReadBatch returns an error only for a socket read that failed or for a
\* message whose request is not a Redis request
ErrorOnlyFromFailure ==
    [][(pc = "read" /\ pc' = "rret" /\ ret' # Nil)
          => \/ ret' = ErrIO /\ hist'.reads = hist.reads + 1 /\ wire' = wire
             \/ ret' = ErrBadAssert /\ mb[rb.i + 1].kind = "bad"]_vars

Unread(b) == SubSeq(b.data, b.r + 1, Len(b.data))

\* C30: when Read rebinds the Reader to the buffer of the next message, the
\* unread bytes of the Reader after ResetBuffer are the unread bytes it had
\* before, in the same order, whatever the capacity of the new buffer; and
\* so every message that was read got the complete reply of its own.
C30_ResetBufferKeepsUnread ==
    /\ [][(mcpc = "next" /\ mcpc' = "until" /\ mcBr # 0)
             => Unread(bufs'[mcBr']) = Unread(bufs[mcBr])]_vars
    /\ [](mcpc \notin {"parked", "new"}
             => \A k \in McIds :
                    mcMsgs[k].st = "read"
                        => mcMsgs[k].got = ReplyBytes(k, mcMsgs[k].kind))
(***************************************************************************)
(* Properties of Handler.closeWithError.                                   *)
(***************************************************************************)
\* every closeWithError call begun has returned
AllReturned ==
    /\ \A t \in Closers : kpc[t] = "idle"
    /\ \E t \in Closers : kcalls[t] > 0

\* what holds of a handler whatever the metrics switch: one call at most
\* passes the swap; cancel, the close of the message channel and the close
\* of the client socket run at most once and, when every call has returned,
\* once; the recorded error is the error of the call that won the swap;
\* closed never goes back
ClosedOnce ==
    /\ hclosed \in {handlerOpening, handlerClosed}
    /\ khist.wasClosed => hclosed = handlerClosed
    /\ Cardinality({t \in Closers : kpc[t] # "idle"}) <= 1
    /\ hdone.cancel <= 1 /\ hdone.msgCh <= 1 /\ hdone.conn <= 1
    /\ hdone.gauge <= 1
    /\ hErr # Nil => hErr = khist.first[1]
    /\ AllReturned =>
          /\ hdone.cancel = 1 /\ hdone.msgCh = 1 /\ hdone.conn = 1
          /\ hErr = khist.first[1]

\* C32 as stated: a handler is closed at most once; under any number of
\* closeWithError calls the cancel of its context, the close of its message
\* channel, the close of the client socket and the decrement of the
\* connection gauge each happen exactly once, the recorded error is the
\* error of the first call, and Closed() stays true once it is true.
C32_EachEffectExactlyOnce ==
    (kpc # <<>>) =>
        /\ ClosedOnce
        /\ AllReturned => hdone.gauge = 1

\* C32, amended: as above, but the gauge is decremented once when the
\* metrics are on and not at all when they are off.
C32_ClosedOnceGaugeWhenMetricsOn ==
    (kpc # <<>>) =>
        /\ ClosedOnce
        /\ AllReturned => hdone.gauge = (IF promOn THEN 1 ELSE 0)

C32_Witness ==
    /\ kpc # <<>>
    /\ promOn
    /\ AllReturned
    /\ \A t \in Closers : kcalls[t] = MaxCloseCalls
    /\ hdone = [cancel |-> 1, msgCh |-> 1, conn |-> 1, gauge |-> 1]
    /\ hErr = EOF
    /\ \E t \in Closers : kerr[t] = ErrIO
(***************************************************************************)
(* Properties of MsgBatch.                                                 *)
(***************************************************************************)
\* the positions Nth is asked for: those of the frame and some beyond
NthRange == 0..(MaxBatchAdds + defaultMsgBatchSize)

\* C35: after k AddMsg calls since the batch was taken from the pool or
\* last reset, a batch recycled by PutMsgBatchs included, Count() is k,
\* Msgs() is the k added messages in the order they were added, Nth(i) is
\* the i-th of them for i < k and nil for i >= k; after Reset, Count() is 0
\* and no message of an earlier frame shows in Msgs() or Nth.
C35_BatchShowsItsFrame ==
    (btpc = "held") =>
        /\ BatchCount(bt) = Len(btAdded)
        /\ BatchMsgs(bt) = btAdded
        /\ \A i \in NthRange :
              /\ BatchNth(bt, i) = IF i < Len(btAdded) THEN btAdded[i + 1] ELSE 0
              /\ BatchNth(bt, i) \notin btOld
        /\ \A k \in 1..Len(BatchMsgs(bt)) : BatchMsgs(bt)[k] \notin btOld

C35_Witness ==
    /\ btpc = "held"
    /\ btFrom = "recycled"
    /\ btFrames = MaxBatchFrames
    /\ Len(btAdded) = MaxBatchAdds
    /\ Cardinality(btOld) >= MaxBatchAdds
====
